---- MODULE Spec2Model ----
(***************************************************************************)
(* Generational handle arenas of the rg3d engine and their clients:        *)
(*   - Pool<Scene>      (State::scenes, SceneContainer::pool)              *)
(*   - RcPool<Resource> (ResourceManager::resources)                      *)
(*   - PhysicsBinder    (node handle -> rigid body handle map)             *)
(*   - Scene            (graph, animations, physics, physics_binder)       *)
(*   - RcPool<SurfaceSharedData> (State::surf_data_storage)                *)
(* The arenas are separate objects that share no state.  A behaviour       *)
(* exercises one of them; `focus`, fixed at Init, says which.              *)
(*                                                                         *)
(* Option<T> is modelled as a sequence: None is << >>, Some(x) is <<x>>.   *)
(* Slot indices are 0-based as in the code; slot i is records[i + 1].      *)
(***************************************************************************)
EXTENDS Integers, Sequences, FiniteSets, TLC

VARIABLES focus, scenes, issued, resources, rissued, request,
          node_rigid_body_map, recent, scene, surf_data_storage, copy,
          last, panicked, weight_set, pushed

vars == <<focus, scenes, issued, resources, rissued, request,
          node_rigid_body_map, recent, scene, surf_data_storage, copy,
          last, panicked, weight_set, pushed>>

(* ------------------------------ bounds --------------------------------- *)
MaxSlots == 2
MaxSpawns == 3
MaxRef == 2
MaxLinkGen == 1
MaxLoads == 2
MaxPhysicsSpawns == 3
MaxAnimationItems == 4
MaxStored == 3
MaxSyncSpawns == 3
MaxRebindSpawns == 3
MaxNesting == 1
MaxPushes == 5

Values == {"A", "B"}

None == << >>
Some(x) == <<x>>

(* ------------------------------ Handle --------------------------------- *)
\* The "none" handle is a sentinel: its index lies outside the index space
\* of every arena, so it differs from the first handle (index 0,
\* generation 0) an empty pool issues.
NoneIndex == MaxSlots + 1
Handle_NONE == [index |-> NoneIndex, generation |-> 0]
Handle_new(i, g) == [index |-> i, generation |-> g]
Handle_is_none(h) == h = Handle_NONE

(* ------------------------------- Pool ---------------------------------- *)
Pool_new == [records |-> << >>, free_stack |-> << >>]

Pool_get_capacity(p) == Len(p.records)

Pool_is_valid(p, h) ==
    /\ h.index >= 0
    /\ h.index < Len(p.records)
    /\ p.records[h.index + 1].generation = h.generation

\* at(index): the payload of slot `index`, None when free or out of range.
Pool_at(p, i) ==
    IF i >= 0 /\ i < Len(p.records) THEN p.records[i + 1].payload ELSE None

Pool_handle_from_index(p, i) ==
    IF i >= 0 /\ i < Len(p.records)
    THEN Handle_new(i, p.records[i + 1].generation)
    ELSE Handle_NONE

\* spawn: reuse the top of the free stack, else append a new slot with
\* generation 0.  The handle carries the slot's current generation.
Pool_spawn(p, v) ==
    IF p.free_stack # << >>
    THEN LET n == Len(p.free_stack)
             i == p.free_stack[n]
             g == p.records[i + 1].generation
         IN [pool |-> [records |-> [p.records EXCEPT ![i + 1].payload = Some(v)],
                       free_stack |-> SubSeq(p.free_stack, 1, n - 1)],
             handle |-> Handle_new(i, g)]
    ELSE [pool |-> [records |-> Append(p.records, [payload |-> Some(v), generation |-> 0]),
                    free_stack |-> p.free_stack],
          handle |-> Handle_new(Len(p.records), 0)]

\* free: on a valid handle clear the payload, bump the generation and push
\* the index on the free stack; otherwise a no-op.
Pool_free(p, h) ==
    IF Pool_is_valid(p, h)
    THEN [records |-> [p.records EXCEPT ![h.index + 1] =
                          [payload |-> None, generation |-> @.generation + 1]],
          free_stack |-> Append(p.free_stack, h.index)]
    ELSE p

Pool_borrow(p, h) ==
    IF Pool_is_valid(p, h) THEN p.records[h.index + 1].payload ELSE None

(* ------------------------------ RcPool --------------------------------- *)
\* A Pool whose slots also carry a reference count.
RcPool_new == [records |-> << >>, free_stack |-> << >>]

RcPool_get_capacity(p) == Len(p.records)

RcPool_is_valid(p, h) ==
    /\ h.index >= 0
    /\ h.index < Len(p.records)
    /\ p.records[h.index + 1].generation = h.generation

RcPool_at(p, i) ==
    IF i >= 0 /\ i < Len(p.records) THEN p.records[i + 1].payload ELSE None

RcPool_handle_from_index(p, i) ==
    IF i >= 0 /\ i < Len(p.records)
    THEN Handle_new(i, p.records[i + 1].generation)
    ELSE Handle_NONE

\* spawn: as Pool::spawn, the new entry starts with ref_count = 1.
RcPool_spawn(p, v) ==
    IF p.free_stack # << >>
    THEN LET n == Len(p.free_stack)
             i == p.free_stack[n]
             g == p.records[i + 1].generation
         IN [pool |-> [records |-> [p.records EXCEPT ![i + 1].payload = Some(v),
                                                     ![i + 1].ref_count = 1],
                       free_stack |-> SubSeq(p.free_stack, 1, n - 1)],
             handle |-> Handle_new(i, g)]
    ELSE [pool |-> [records |-> Append(p.records,
                        [payload |-> Some(v), generation |-> 0, ref_count |-> 1]),
                    free_stack |-> p.free_stack],
          handle |-> Handle_new(Len(p.records), 0)]

\* share_handle: on a valid handle count one more reference and return an
\* equal handle; otherwise return the none handle and change nothing.
RcPool_share_handle(p, h) ==
    IF RcPool_is_valid(p, h)
    THEN [pool |-> [p EXCEPT !.records[h.index + 1].ref_count = @ + 1],
          handle |-> h]
    ELSE [pool |-> p, handle |-> Handle_NONE]

\* release: on a valid handle count one reference less; at zero free the
\* slot as Pool::free does (generation bump included); otherwise a no-op.
RcPool_release(p, h) ==
    IF RcPool_is_valid(p, h)
    THEN LET rec == p.records[h.index + 1]
         IN IF rec.ref_count - 1 = 0
            THEN [records |-> [p.records EXCEPT ![h.index + 1] =
                                  [payload |-> None,
                                   generation |-> rec.generation + 1,
                                   ref_count |-> 0]],
                  free_stack |-> Append(p.free_stack, h.index)]
            ELSE [p EXCEPT !.records[h.index + 1].ref_count = @ - 1]
    ELSE p

RcPool_borrow(p, h) ==
    IF RcPool_is_valid(p, h) THEN p.records[h.index + 1].payload ELSE None

\* iter() / iter_mut(): the payloads of the occupied slots, in index order
\* (Pool and RcPool alike).
RECURSIVE IterFrom(_, _)
IterFrom(p, i) ==
    IF i > Len(p.records) THEN << >>
    ELSE p.records[i].payload \o IterFrom(p, i + 1)
Pool_iter(p) == IterFrom(p, 1)
RcPool_iter_mut(p) == IterFrom(p, 1)

(* ------------------------------- Path ---------------------------------- *)
\* A path is the sequence of its characters.
UpperCase == <<"A","B","C","D","E","F","G","H","I","J","K","L","M",
               "N","O","P","Q","R","S","T","U","V","W","X","Y","Z">>
LowerCase == <<"a","b","c","d","e","f","g","h","i","j","k","l","m",
               "n","o","p","q","r","s","t","u","v","w","x","y","z">>

char_to_ascii_lowercase(c) ==
    IF \E i \in 1..Len(UpperCase) : UpperCase[i] = c
    THEN LowerCase[CHOOSE i \in 1..Len(UpperCase) : UpperCase[i] = c]
    ELSE c

to_ascii_lowercase(str) == [i \in 1..Len(str) |-> char_to_ascii_lowercase(str[i])]

\* Position of the last occurrence of character c in str, 0 when absent.
LastIndexOf(str, c) ==
    IF \E i \in 1..Len(str) : str[i] = c
    THEN CHOOSE i \in 1..Len(str) :
            str[i] = c /\ \A j \in (i + 1)..Len(str) : str[j] # c
    ELSE 0

Path_file_name(path) == SubSeq(path, LastIndexOf(path, "/") + 1, Len(path))

\* Path::extension: the part of the file name after its last dot; None when
\* the file name is empty, has no dot, or has its only dot in front.
Path_extension(path) ==
    LET name == Path_file_name(path)
        dot == LastIndexOf(name, ".")
    IN IF Len(name) = 0 \/ dot = 0 \/ dot = 1
       THEN None
       ELSE Some(SubSeq(name, dot + 1, Len(name)))

\* path.extension().and_then(to_str).map_or("", to_ascii_lowercase)
LowerExtension(path) ==
    LET e == Path_extension(path)
    IN IF e = None THEN << >> ELSE to_ascii_lowercase(e[1])

\* Variant: the extension is matched as written.
RawExtension(path) ==
    LET e == Path_extension(path)
    IN IF e = None THEN << >> ELSE e[1]

TextureExtensions ==
    { <<"j","p","g">>, <<"j","p","e","g">>, <<"p","n","g">>, <<"t","i","f">>,
      <<"t","i","f","f">>, <<"t","g","a">>, <<"b","m","p">> }
ModelExtensions == { <<"f","b","x">> }

\* The arm the match on the extension takes.
LoaderFor(extension) ==
    IF extension \in TextureExtensions THEN "Texture"
    ELSE IF extension \in ModelExtensions THEN "Model"
    ELSE "Unknown"

(* ------------------------------ clients -------------------------------- *)
\* Variant: a reused slot is set up like a new one, its generation reset.
State_add_scene_ResetGeneration(p, v) ==
    LET r == Pool_spawn(p, v)
        i == r.handle.index
    IN [pool |-> [r.pool EXCEPT !.records[i + 1].generation = 0],
        handle |-> Handle_new(i, 0)]

\* Variant: the free stack is ignored, every scene gets a new slot.
State_add_scene_AlwaysAppend(p, v) ==
    [pool |-> [records |-> Append(p.records, [payload |-> Some(v), generation |-> 0]),
               free_stack |-> p.free_stack],
     handle |-> Handle_new(Len(p.records), 0)]

State_add_scene(p, v) == Pool_spawn(p, v)

\* Variant: the scene is looked up by slot index, the generation unchecked.
State_get_scene_ByIndex(p, h) ==
    [ret |-> Pool_at(p, h.index), panic |-> FALSE]

\* Variant: the borrow is unwrapped instead of matched.
State_get_scene_Unwrap(p, h) ==
    [ret |-> Pool_borrow(p, h), panic |-> Pool_borrow(p, h) = None]

State_get_scene(p, h) ==
    LET r == Pool_borrow(p, h)
    IN IF r # None THEN [ret |-> r, panic |-> FALSE]
                   ELSE [ret |-> None, panic |-> FALSE]

State_get_scene_mut(p, h) ==
    LET r == Pool_borrow(p, h)
    IN IF r # None THEN [ret |-> r, panic |-> FALSE]
                   ELSE [ret |-> None, panic |-> FALSE]

\* Variant: the slot is released without a generation bump.
SceneContainer_remove_NoBump(p, h) ==
    IF Pool_is_valid(p, h)
    THEN [records |-> [p.records EXCEPT ![h.index + 1].payload = None],
          free_stack |-> Append(p.free_stack, h.index)]
    ELSE p

\* Variant: the slot named by the index is freed, the generation unchecked.
SceneContainer_remove_ByIndex(p, h) ==
    IF Pool_at(p, h.index) # None
    THEN Pool_free(p, Pool_handle_from_index(p, h.index))
    ELSE p

SceneContainer_remove(p, h) == Pool_free(p, h)

\* Variant: the handle is rebuilt from the index after the one just filled.
ResourceManager_add_resource_NextIndex(p, v) ==
    LET r == RcPool_spawn(p, v)
    IN [pool |-> r.pool,
        handle |-> RcPool_handle_from_index(r.pool, r.handle.index + 1)]

ResourceManager_add_resource(p, v) == RcPool_spawn(p, v)

ResourceManager_borrow_resource(p, h) == RcPool_borrow(p, h)

\* Variant: the count of the slot at the handle's index is raised, the
\* generation unchecked.
ResourceManager_share_resource_handle_ByIndex(p, h) ==
    IF h.index >= 0 /\ h.index < Len(p.records)
    THEN [pool |-> [p EXCEPT !.records[h.index + 1].ref_count = @ + 1],
          handle |-> RcPool_handle_from_index(p, h.index)]
    ELSE [pool |-> p, handle |-> Handle_NONE]

\* Variant: the handle is copied, the count left as it is.
ResourceManager_share_resource_handle_NoCount(p, h) ==
    [pool |-> p, handle |-> IF RcPool_is_valid(p, h) THEN h ELSE Handle_NONE]

ResourceManager_share_resource_handle(p, h) == RcPool_share_handle(p, h)

Resource_new(path, kind) == [path |-> path, kind |-> kind]

\* The index of the first occupied slot whose resource has this path, -1 if
\* there is none (the scan of find_resource).
FirstIndexWithPath(p, path) ==
    LET hits == {i \in 0..(RcPool_get_capacity(p) - 1) :
                    RcPool_at(p, i) # None /\ RcPool_at(p, i)[1].path = path}
    IN IF hits = {} THEN -1
       ELSE CHOOSE i \in hits : \A j \in hits : i <= j

\* Variant: the scan stops at the first occupied slot, whatever its path.
ResourceManager_find_resource_AnyPath(p, path) ==
    LET hits == {i \in 0..(RcPool_get_capacity(p) - 1) : RcPool_at(p, i) # None}
    IN [pool |-> p,
        handle |-> IF hits = {} THEN Handle_NONE
                   ELSE RcPool_handle_from_index(p, CHOOSE i \in hits : \A j \in hits : i <= j)]

\* Variant: the scan never matches.
ResourceManager_find_resource_NeverFound(p, path) ==
    [pool |-> p, handle |-> Handle_NONE]

\* find_resource: the handle of the first occupied slot with this path,
\* built by handle_from_index, or the none handle.
ResourceManager_find_resource(p, path) ==
    LET i == FirstIndexWithPath(p, path)
    IN [pool |-> p,
        handle |-> IF i >= 0 THEN RcPool_handle_from_index(p, i) ELSE Handle_NONE]

\* The result of one arm of the match: a loader runs (loaded), then the
\* resource is added or a message is printed.
LoadWith(p, path, kind, ok, message) ==
    IF ok
    THEN LET r == ResourceManager_add_resource(p, Resource_new(path, kind))
         IN [pool |-> r.pool, handle |-> r.handle,
             loaded |-> <<kind>>, printed |-> << >>]
    ELSE [pool |-> p, handle |-> Handle_NONE,
          loaded |-> <<kind>>, printed |-> <<message>>]

\* Variant: a failed load leaves an entry for the path behind.
LoadByExtension_KeepFailed(p, path, extension, ok) ==
    LET a == LoaderFor(extension)
    IN IF a = "Unknown"
       THEN [pool |-> p, handle |-> Handle_NONE,
             loaded |-> << >>, printed |-> <<"Unknown resource type!">>]
       ELSE LET r == ResourceManager_add_resource(p, Resource_new(path, a))
            IN [pool |-> r.pool, handle |-> IF ok THEN r.handle ELSE Handle_NONE,
                loaded |-> <<a>>,
                printed |-> IF ok THEN << >> ELSE <<"Unable to load texture!">>]

\* Variant: the default arm tries the texture loader.
LoadByExtension_DefaultTexture(p, path, extension, ok) ==
    LET a == LoaderFor(extension)
    IN IF a = "Model"
       THEN LoadWith(p, path, "Model", ok, "Unable to load model!")
       ELSE LoadWith(p, path, "Texture", ok, "Unable to load texture!")

\* The match on the extension: the texture arm, the model arm, the default.
\* ok is the outcome of the loader (Texture::load, Model::load).
LoadByExtension(p, path, extension, ok) ==
    LET a == LoaderFor(extension)
    IN IF a = "Texture"
       THEN LoadWith(p, path, "Texture", ok, "Unable to load texture!")
       ELSE IF a = "Model"
       THEN LoadWith(p, path, "Model", ok, "Unable to load model!")
       ELSE [pool |-> p, handle |-> Handle_NONE,
             loaded |-> << >>, printed |-> <<"Unknown resource type!">>]

\* Variant: the extension is matched without lower-casing.
State_request_resource_CaseSensitive(p, path, ok) ==
    LET f == ResourceManager_find_resource(p, path)
    IN IF ~Handle_is_none(f.handle)
       THEN [pool |-> f.pool, handle |-> f.handle, loaded |-> << >>, printed |-> << >>]
       ELSE LoadByExtension(f.pool, path, RawExtension(path), ok)

\* request_resource: the handle find_resource gives; when that is none, the
\* result of the loader chosen by the lower-cased extension.
State_request_resource(p, path, ok) ==
    LET f == ResourceManager_find_resource(p, path)
    IN IF ~Handle_is_none(f.handle)
       THEN [pool |-> f.pool, handle |-> f.handle, loaded |-> << >>, printed |-> << >>]
       ELSE LoadByExtension(f.pool, path, LowerExtension(path), ok)

\* request_resource with a model loader that is handed the whole State
\* (Model::load(path, self)) and may call request_resource itself before it
\* returns.  plan says what the loader called for path does: nested is the
\* request it makes (none, or one with the plan of its own loader), ok its
\* outcome.  The texture loader gets the path alone.
RECURSIVE State_request_resource_nested(_, _, _)
State_request_resource_nested(p, path, plan) ==
    LET f == ResourceManager_find_resource(p, path)
    IN IF ~Handle_is_none(f.handle)
       THEN [pool |-> f.pool, handle |-> f.handle, loaded |-> << >>, printed |-> << >>]
       ELSE IF LoaderFor(LowerExtension(path)) = "Model" /\ plan.nested # << >>
       THEN LET inner == State_request_resource_nested(
                             f.pool, plan.nested[1].path, plan.nested[1].plan)
                outer == LoadWith(inner.pool, path, "Model", plan.ok,
                                  "Unable to load model!")
            IN [pool |-> outer.pool, handle |-> outer.handle,
                loaded |-> inner.loaded \o outer.loaded,
                printed |-> inner.printed \o outer.printed]
       ELSE LoadByExtension(f.pool, path, LowerExtension(path), plan.ok)

\* Variant: func is applied to every resource.
ResourceManager_for_each_texture_mut_AnyKind(p) == RcPool_iter_mut(p)

\* for_each_texture_mut(func): the textures func is applied to, in order.
ResourceManager_for_each_texture_mut(p) ==
    LET is_texture(resource) == resource.kind = "Texture"
    IN SelectSeq(RcPool_iter_mut(p), is_texture)

\* Variant: the slots are walked without looking at their occupancy.
SceneContainer_iter_AllSlots(p) ==
    [i \in 1..Len(p.records) |->
        IF p.records[i].payload = None THEN "free" ELSE p.records[i].payload[1]]

SceneContainer_iter(p) == Pool_iter(p)

(* --------------------------- PhysicsBinder ----------------------------- *)
\* node_rigid_body_map: HashMap<Handle<Node>, Handle<RigidBody>>, a function
\* whose domain is the set of linked node handles.
EmptyMap == [k \in {} |-> Handle_NONE]

MapGet(m, k) == IF k \in DOMAIN m THEN Some(m[k]) ELSE None

\* Variant: a node that is linked keeps its body (entry().or_insert()).
PhysicsBinder_bind_KeepFirst(m, node, rigid_body) ==
    [map |-> [k \in DOMAIN m \cup {node} |-> IF k \in DOMAIN m THEN m[k] ELSE rigid_body],
     ret |-> MapGet(m, node)]

\* Variant: a body has one node at most, its other links are dropped.
PhysicsBinder_bind_Exclusive(m, node, rigid_body) ==
    [map |-> [k \in {j \in DOMAIN m : m[j] # rigid_body} \cup {node} |->
                 IF k = node THEN rigid_body ELSE m[k]],
     ret |-> MapGet(m, node)]

\* HashMap::insert: set the value of the key, return the old value if any.
PhysicsBinder_bind(m, node, rigid_body) ==
    [map |-> [k \in DOMAIN m \cup {node} |-> IF k = node THEN rigid_body ELSE m[k]],
     ret |-> MapGet(m, node)]

\* Variant: the value is returned but the key stays.
PhysicsBinder_unbind_KeepLink(m, node) ==
    [map |-> m, ret |-> MapGet(m, node)]

\* HashMap::remove: drop the key, return its value if it had one.
PhysicsBinder_unbind(m, node) ==
    [map |-> [k \in DOMAIN m \ {node} |-> m[k]],
     ret |-> MapGet(m, node)]

(* --------------------------- VertexWeightSet --------------------------- *)
\* VertexWeightSet { weights: [VertexWeight; 4], count }.  A weight is
\* modelled by a number, the default weight (value 0.0, no effector) by 0.
WeightCapacity == 4
VertexWeight_default == 0
Weights == {1, 2, 3}

VertexWeightSet_default ==
    [weights |-> [i \in 1..WeightCapacity |-> VertexWeight_default], count |-> 0]

\* Variant: a full set takes the weight in place of its last one.
VertexWeightSet_push_ReplaceLast(s, weight) ==
    IF s.count < Len(s.weights)
    THEN [set |-> [weights |-> [s.weights EXCEPT ![s.count + 1] = weight],
                   count |-> s.count + 1],
          ret |-> TRUE]
    ELSE [set |-> [s EXCEPT !.weights[s.count] = weight], ret |-> FALSE]

VertexWeightSet_push(s, weight) ==
    IF s.count < Len(s.weights)
    THEN [set |-> [weights |-> [s.weights EXCEPT ![s.count + 1] = weight],
                   count |-> s.count + 1],
          ret |-> TRUE]
    ELSE [set |-> s, ret |-> FALSE]

VertexWeightSet_len(s) == s.count

VertexWeightSet_is_empty(s) == s.count = 0

\* iter(): the slice weights[0..count].
VertexWeightSet_iter(s) == SubSeq(s.weights, 1, s.count)

(* ------------------------------- Scene --------------------------------- *)
\* Scene { graph, animations, physics, physics_binder }.  Graph keeps its
\* nodes and Physics its bodies in a Pool each.  Of a node the model keeps
\* the handle of its parent and the position of its local transform, of a
\* body its position; an animation is the sequence of its tracks, a track
\* the node handle it targets.
Positions == {0, 1}
Node_new(parent) == [parent |-> parent, position |-> 0]
RigidBody_new == [position |-> 0]

Scene_default ==
    [graph |-> Pool_new, animations |-> << >>,
     physics |-> Pool_new, physics_binder |-> EmptyMap]

\* The handles of the occupied slots of a pool, in index order.
RECURSIVE OccupiedFrom(_, _)
OccupiedFrom(p, i) ==
    IF i >= Len(p.records) THEN << >>
    ELSE (IF p.records[i + 1].payload # None
          THEN <<Pool_handle_from_index(p, i)>> ELSE << >>)
         \o OccupiedFrom(p, i + 1)
OccupiedHandles(p) == OccupiedFrom(p, 0)

Range(f) == {f[x] : x \in DOMAIN f}

Graph_is_valid_handle(g, h) == Pool_is_valid(g, h)
Graph_add_node(g, parent) == Pool_spawn(g, Node_new(parent))

Physics_is_valid_body_handle(ph, h) == Pool_is_valid(ph, h)
Physics_add_body(ph) == Pool_spawn(ph, RigidBody_new)
Physics_remove_body(ph, h) == Pool_free(ph, h)

\* n is h or has h among its ancestors.
RECURSIVE Graph_is_under(_, _, _, _)
Graph_is_under(g, n, h, depth) ==
    \/ n = h
    \/ /\ depth > 0
       /\ Pool_borrow(g, n) # None
       /\ Graph_is_under(g, Pool_borrow(g, n)[1].parent, h, depth - 1)

\* traverse_handle_iter(h): h and its descendants.
Graph_traverse_handle_iter(g, h) ==
    LET under(n) == Graph_is_under(g, n, h, Len(g.records))
    IN SelectSeq(OccupiedHandles(g), under)

RECURSIVE Pool_free_all(_, _)
Pool_free_all(p, hs) ==
    IF hs = << >> THEN p ELSE Pool_free_all(Pool_free(p, Head(hs)), Tail(hs))

\* Graph::remove_node(h): h and its descendants leave the pool.
Graph_remove_node(g, h) == Pool_free_all(g, Graph_traverse_handle_iter(g, h))

\* Graph::clone(filter): the nodes the filter accepts (keep: their slot
\* indices) are spawned into a new graph in index order; old_new_map takes
\* the old handle of each to its new one; a parent that was not copied
\* becomes the none handle.
RECURSIVE Graph_copy(_, _, _)
Graph_copy(g, hs, acc) ==
    IF hs = << >> THEN acc
    ELSE LET r == Pool_spawn(acc.graph, Pool_borrow(g, Head(hs))[1])
         IN Graph_copy(g, Tail(hs),
                [graph |-> r.pool,
                 old_new_map |-> [k \in DOMAIN acc.old_new_map \cup {Head(hs)} |->
                                     IF k = Head(hs) THEN r.handle
                                     ELSE acc.old_new_map[k]]])

Graph_clone(g, keep) ==
    LET kept(h) == h.index \in keep
        c == Graph_copy(g, SelectSeq(OccupiedHandles(g), kept),
                        [graph |-> Pool_new, old_new_map |-> EmptyMap])
        relink(rec) ==
            IF rec.payload = None THEN rec
            ELSE [rec EXCEPT !.payload =
                     Some([rec.payload[1] EXCEPT !.parent =
                              IF rec.payload[1].parent \in DOMAIN c.old_new_map
                              THEN c.old_new_map[rec.payload[1].parent]
                              ELSE Handle_NONE])]
    IN [graph |-> [c.graph EXCEPT !.records =
                      [i \in 1..Len(c.graph.records) |-> relink(c.graph.records[i])]],
        old_new_map |-> c.old_new_map]

\* Animation::retain_tracks, and the loop that sets each track's node.
Animation_retain_tracks(tracks, old_new_map) ==
    LET known(t) == t \in DOMAIN old_new_map
    IN SelectSeq(tracks, known)

\* old_new_map[&track.get_node()] panics on a key that is not in the map.
Animation_remap_tracks(tracks, old_new_map) ==
    [tracks |-> [i \in 1..Len(tracks) |->
                    IF tracks[i] \in DOMAIN old_new_map
                    THEN old_new_map[tracks[i]] ELSE tracks[i]],
     panic |-> \E i \in 1..Len(tracks) : tracks[i] \notin DOMAIN old_new_map]

\* Variant: the tracks of filtered-out nodes stay.
Scene_clone_animation_KeepAll(tracks, old_new_map) ==
    Animation_remap_tracks(tracks, old_new_map)

\* Variant: the tracks are filtered but copied as they are.
Scene_clone_animation_NoRemap(tracks, old_new_map) ==
    [tracks |-> Animation_retain_tracks(tracks, old_new_map), panic |-> FALSE]

\* The body of the loop over the cloned animations.
Scene_clone_animation(tracks, old_new_map) ==
    Animation_remap_tracks(Animation_retain_tracks(tracks, old_new_map), old_new_map)

\* The new binder: each link whose node was copied, bound to the new node.
RECURSIVE Scene_clone_binder(_, _, _, _)
Scene_clone_binder(m, old_new_map, keys, acc) ==
    IF keys = {} THEN acc
    ELSE LET node == CHOOSE k \in keys : TRUE
         IN Scene_clone_binder(m, old_new_map, keys \ {node},
                IF node \in DOMAIN old_new_map
                THEN PhysicsBinder_bind(acc, old_new_map[node], m[node]).map
                ELSE acc)

\* Variant: the link table is copied as it is.
Scene_clone_KeepBinder(s, keep) ==
    LET c == Graph_clone(s.graph, keep)
        a == [i \in 1..Len(s.animations) |->
                 Scene_clone_animation(s.animations[i], c.old_new_map)]
    IN [scene |-> [graph |-> c.graph,
                   animations |-> [i \in 1..Len(a) |-> a[i].tracks],
                   physics |-> s.physics,
                   physics_binder |-> s.physics_binder],
        old_new_map |-> c.old_new_map,
        panic |-> \E i \in 1..Len(a) : a[i].panic]

Scene_clone(s, keep) ==
    LET c == Graph_clone(s.graph, keep)
        a == [i \in 1..Len(s.animations) |->
                 Scene_clone_animation(s.animations[i], c.old_new_map)]
    IN [scene |-> [graph |-> c.graph,
                   animations |-> [i \in 1..Len(a) |-> a[i].tracks],
                   physics |-> s.physics,
                   physics_binder |-> Scene_clone_binder(s.physics_binder, c.old_new_map,
                                          DOMAIN s.physics_binder, EmptyMap)],
        old_new_map |-> c.old_new_map,
        panic |-> \E i \in 1..Len(a) : a[i].panic]

\* The retain of update_physics: a pair stays when its node and its body
\* are both alive.
Scene_prune(s) ==
    [k \in {n \in DOMAIN s.physics_binder :
                /\ Graph_is_valid_handle(s.graph, n)
                /\ Physics_is_valid_body_handle(s.physics, s.physics_binder[n])}
        |-> s.physics_binder[k]]

\* The sync loop: borrow_body(*body) and self.graph[*node] give a reference
\* each, so neither can answer for a handle that is not valid: they panic.
Scene_sync_panics(s, m) ==
    \E n \in DOMAIN m :
        \/ ~Physics_is_valid_body_handle(s.physics, m[n])
        \/ ~Graph_is_valid_handle(s.graph, n)

\* Physics::step(dt): the bodies move; to gives, slot by slot, where each
\* body is afterwards.  The arena is otherwise left as it is.
Physics_step(ph, to) ==
    [ph EXCEPT !.records =
        [i \in 1..Len(ph.records) |->
            IF ph.records[i].payload = None THEN ph.records[i]
            ELSE [ph.records[i] EXCEPT !.payload = Some([position |-> to[i]])]]]

\* The step that moves nothing.
Physics_at_rest(ph) ==
    [i \in 1..Len(ph.records) |->
        IF ph.records[i].payload = None THEN 0 ELSE ph.records[i].payload[1].position]

\* The sync loop over table m: the node of each pair takes the position of
\* the body of the pair.
Scene_sync(g, ph, m) ==
    [g EXCEPT !.records =
        [i \in 1..Len(g.records) |->
            LET keys == {n \in DOMAIN m : n.index = i - 1
                                          /\ Graph_is_valid_handle(g, n)
                                          /\ Pool_borrow(ph, m[n]) # None}
            IN IF keys = {} \/ g.records[i].payload = None THEN g.records[i]
               ELSE LET n == CHOOSE k \in keys : TRUE
                    IN [g.records[i] EXCEPT !.payload =
                           Some([g.records[i].payload[1] EXCEPT
                                    !.position = Pool_borrow(ph, m[n])[1].position])]]]

\* Variant: the sync loop runs on the table as it is.
Scene_update_physics_NoPrune(s, to) ==
    LET s1 == [s EXCEPT !.physics = Physics_step(s.physics, to)]
    IN [scene |-> [s1 EXCEPT !.graph = Scene_sync(s1.graph, s1.physics, s.physics_binder)],
        panic |-> Scene_sync_panics(s1, s.physics_binder)]

\* Variant: only the body of a pair is checked.
Scene_update_physics_BodyOnly(s, to) ==
    LET s1 == [s EXCEPT !.physics = Physics_step(s.physics, to)]
        m == [k \in {n \in DOMAIN s.physics_binder :
                       Physics_is_valid_body_handle(s.physics, s.physics_binder[n])}
                 |-> s.physics_binder[k]]
    IN [scene |-> [s1 EXCEPT !.physics_binder = m,
                             !.graph = Scene_sync(s1.graph, s1.physics, m)],
        panic |-> Scene_sync_panics(s1, m)]

\* Variant: the positions are copied before the bodies are stepped.
Scene_update_physics_SyncFirst(s, to) ==
    LET m == Scene_prune(s)
    IN [scene |-> [s EXCEPT !.physics = Physics_step(s.physics, to),
                            !.physics_binder = m,
                            !.graph = Scene_sync(s.graph, s.physics, m)],
        panic |-> Scene_sync_panics(s, m)]

\* Variant: once a pair is left, every node takes the position of its body.
Scene_update_physics_SyncAll(s, to) ==
    LET s1 == [s EXCEPT !.physics = Physics_step(s.physics, to)]
        m == Scene_prune(s1)
        moved == IF DOMAIN m = {} THEN s1.graph
                 ELSE LET b == m[CHOOSE k \in DOMAIN m : TRUE]
                      IN [s1.graph EXCEPT !.records =
                            [i \in 1..Len(s1.graph.records) |->
                               IF s1.graph.records[i].payload = None
                               THEN s1.graph.records[i]
                               ELSE [s1.graph.records[i] EXCEPT !.payload =
                                       Some([s1.graph.records[i].payload[1] EXCEPT
                                          !.position =
                                             Pool_borrow(s1.physics, b)[1].position])]]]
    IN [scene |-> [s1 EXCEPT !.physics_binder = m, !.graph = moved],
        panic |-> Scene_sync_panics(s1, m)]

\* Variant: a node counts as alive when its slot is occupied.
Scene_update_physics_ByIndex(s, to) ==
    LET s1 == [s EXCEPT !.physics = Physics_step(s.physics, to)]
        m == [k \in {n \in DOMAIN s.physics_binder :
                       /\ n.index >= 0 /\ n.index < Len(s.graph.records)
                       /\ s.graph.records[n.index + 1].payload # None
                       /\ Physics_is_valid_body_handle(s.physics, s.physics_binder[n])}
                 |-> s.physics_binder[k]]
    IN [scene |-> [s1 EXCEPT !.physics_binder = m,
                             !.graph = Scene_sync(s1.graph, s1.physics, m)],
        panic |-> Scene_sync_panics(s1, m)]

\* update_physics: the physics step, the prune, the sync loop.
Scene_update_physics(s, to) ==
    LET s1 == [s EXCEPT !.physics = Physics_step(s.physics, to)]
        m == Scene_prune(s1)
    IN [scene |-> [s1 EXCEPT !.physics_binder = m,
                             !.graph = Scene_sync(s1.graph, s1.physics, m)],
        panic |-> Scene_sync_panics(s1, m)]

\* Variant: an animation goes only when all of its tracks target the handle.
AnimationContainer_retain_AllTracks(animations, descendant) ==
    LET some_other(tracks) == tracks = << >> \/ \E i \in 1..Len(tracks) : tracks[i] # descendant
    IN SelectSeq(animations, some_other)

\* The retain of remove_node for one handle of the traversal: an animation
\* stays when none of its tracks targets the handle.
AnimationContainer_retain(animations, descendant) ==
    LET clear(tracks) == \A i \in 1..Len(tracks) : tracks[i] # descendant
    IN SelectSeq(animations, clear)

RECURSIVE Scene_remove_animations(_, _)
Scene_remove_animations(animations, descendants) ==
    IF descendants = << >> THEN animations
    ELSE Scene_remove_animations(
             AnimationContainer_retain(animations, Head(descendants)),
             Tail(descendants))

\* Variant: only the animations of the node itself are removed.
Scene_remove_node_OwnOnly(s, h) ==
    [s EXCEPT !.animations = AnimationContainer_retain(s.animations, h),
              !.graph = Graph_remove_node(s.graph, h)]

\* Variant: the links of the removed nodes are dropped at once.
Scene_remove_node_Unlink(s, h) ==
    [s EXCEPT !.animations = Scene_remove_animations(s.animations,
                                 Graph_traverse_handle_iter(s.graph, h)),
              !.physics_binder =
                  [k \in DOMAIN s.physics_binder
                            \ Range(Graph_traverse_handle_iter(s.graph, h))
                      |-> s.physics_binder[k]],
              !.graph = Graph_remove_node(s.graph, h)]

\* remove_node, for a handle that is valid.
Scene_remove_node(s, h) ==
    [s EXCEPT !.animations = Scene_remove_animations(s.animations,
                                 Graph_traverse_handle_iter(s.graph, h)),
              !.graph = Graph_remove_node(s.graph, h)]

(* ------------------------------- Visit --------------------------------- *)
\* What is written of an arena: its slots in index order, each with its
\* occupancy, payload and generation; neither the free list nor the
\* reference counts.  What is read back: the same slots; the generations are
\* either the ones written or zero; the free list is rebuilt from the gaps
\* and every occupied slot of a ref-counted arena starts at count 1.
Generations == {"saved", "zero"}

Pool_save(p) ==
    [i \in 1..Len(p.records) |->
        [payload |-> p.records[i].payload, generation |-> p.records[i].generation]]

RECURSIVE GapsFrom(_, _)
GapsFrom(saved, i) ==
    IF i > Len(saved) THEN << >>
    ELSE (IF saved[i].payload = None THEN <<i - 1>> ELSE << >>) \o GapsFrom(saved, i + 1)

Pool_load(saved, generations) ==
    [records |-> [i \in 1..Len(saved) |->
                     [payload |-> saved[i].payload,
                      generation |-> IF generations = "saved"
                                     THEN saved[i].generation ELSE 0]],
     free_stack |-> GapsFrom(saved, 1)]

RcPool_save(p) == Pool_save(p)

RcPool_load(saved, generations) ==
    LET p == Pool_load(saved, generations)
    IN [records |-> [i \in 1..Len(saved) |->
                        [payload |-> p.records[i].payload,
                         generation |-> p.records[i].generation,
                         ref_count |-> IF saved[i].payload = None THEN 0 ELSE 1]],
        free_stack |-> p.free_stack]

\* A HashMap is written as its pairs, in the order its iterator gives, and
\* read back by inserting them.
RECURSIVE HashMap_save(_, _)
HashMap_save(m, keys) ==
    IF keys = {} THEN << >>
    ELSE LET k == CHOOSE x \in keys : TRUE
         IN <<[key |-> k, value |-> m[k]]>> \o HashMap_save(m, keys \ {k})

RECURSIVE HashMap_load(_, _)
HashMap_load(pairs, acc) ==
    IF pairs = << >> THEN acc
    ELSE HashMap_load(Tail(pairs),
             [k \in DOMAIN acc \cup {Head(pairs).key} |->
                 IF k = Head(pairs).key THEN Head(pairs).value ELSE acc[k]])

PhysicsBinder_visit(m) == HashMap_load(HashMap_save(m, DOMAIN m), EmptyMap)

\* Variant: the occupied slots are read back one after the other, the gaps
\* left out.
Scene_visit_Compact(s, generations) ==
    LET occupied(rec) == rec.payload # None
    IN [physics_binder |-> PhysicsBinder_visit(s.physics_binder),
        graph |-> Pool_load(SelectSeq(Pool_save(s.graph), occupied), generations),
        animations |-> s.animations,
        physics |-> Pool_load(SelectSeq(Pool_save(s.physics), occupied), generations)]

\* Scene::visit, writing then reading: the binder, the graph, the
\* animations, the physics world.
Scene_visit(s, generations) ==
    [physics_binder |-> PhysicsBinder_visit(s.physics_binder),
     graph |-> Pool_load(Pool_save(s.graph), generations),
     animations |-> s.animations,
     physics |-> Pool_load(Pool_save(s.physics), generations)]

\* Variant: the reference counts come back as they were.
State_reload_KeepCounts(storage, generations) ==
    LET p == RcPool_load(RcPool_save(storage), generations)
    IN [p EXCEPT !.records = [i \in 1..Len(p.records) |->
                                 [p.records[i] EXCEPT !.ref_count = storage.records[i].ref_count]]]

\* Variant: the free list comes back empty.
State_reload_NoFreeList(storage, generations) ==
    [RcPool_load(RcPool_save(storage), generations) EXCEPT !.free_stack = << >>]

\* State serialized and deserialized: surf_data_storage comes back (the
\* resource manager is skipped).
State_reload(storage, generations) ==
    RcPool_load(RcPool_save(storage), generations)

(* --------------------------- ghost history ----------------------------- *)
\* issued: one entry per spawn, in spawn order: the handle returned, the
\* value stored, and freedAt = the number of spawns that had happened when
\* free was first called with this handle (0: never).
IssuedHandles == {issued[k].handle : k \in 1..Len(issued)}

\* Handles a client can present: every handle ever issued, the none handle,
\* and a handle whose index is past the end of the pool.
HandleInputs ==
    IssuedHandles \cup {Handle_NONE, Handle_new(Len(scenes.records), 0)}

MarkFreed(h) ==
    [k \in 1..Len(issued) |->
        IF issued[k].handle = h /\ issued[k].freedAt = 0
        THEN [issued[k] EXCEPT !.freedAt = Len(issued)]
        ELSE issued[k]]

\* rissued: one entry per RcPool spawn, in spawn order: the handle returned,
\* the value stored, and refs = the references the clients hold on it: one
\* for the spawn, one more for each share_handle that returned a handle,
\* one less for each release called with the handle while any was held;
\* holders = the callers that keep the handle of the entry while it is in
\* the arena: as refs, and one more for each request_resource that returned
\* the handle of the entry already loaded; none once the entry is removed.
Retain(h) ==
    [k \in 1..Len(rissued) |->
        IF rissued[k].handle = h /\ rissued[k].refs > 0
        THEN [rissued[k] EXCEPT !.refs = @ + 1, !.holders = @ + 1]
        ELSE rissued[k]]

Drop(h) ==
    [k \in 1..Len(rissued) |->
        IF rissued[k].handle = h /\ rissued[k].refs > 0
        THEN [rissued[k] EXCEPT
                 !.refs = @ - 1,
                 !.holders = IF rissued[k].refs = 1 THEN 0 ELSE @ - 1]
        ELSE rissued[k]]

\* A caller got the handle from request_resource and keeps it.
Hand(h) ==
    [k \in 1..Len(rissued) |->
        IF rissued[k].handle = h /\ rissued[k].refs > 0
        THEN [rissued[k] EXCEPT !.holders = @ + 1]
        ELSE rissued[k]]

RIssuedHandles == {rissued[k].handle : k \in 1..Len(rissued)}

RcHandleInputs ==
    RIssuedHandles \cup {Handle_NONE, Handle_new(Len(resources.records), 0)}

\* request: the path asked for, the loaders run and the messages printed by
\* the last call (nothing for a call other than request_resource).
NoRequest == [path |-> << >>, loaded |-> << >>, printed |-> << >>]

\* Paths requested: two spellings of a texture file, a model and a file of
\* an unknown kind.
Paths ==
    { <<"t",".","p","n","g">>, <<"t",".","P","N","G">>, <<"m",".","f","b","x">>,
      <<"a",".","t","x","t">> }

\* Binder keys and targets: the none handle and handles of slot 0 of an
\* arena in its successive generations.
LinkHandles == {Handle_NONE} \cup {Handle_new(0, g) : g \in 0..MaxLinkGen}

\* The handles an arena has issued so far: for each slot the generations
\* up to its current one (the current one only while the slot is occupied).
IssuedOf(p) ==
    UNION {{Handle_new(i - 1, g) :
               g \in 0..(p.records[i].generation
                          - (IF p.records[i].payload # None THEN 0 ELSE 1))} :
           i \in 1..Len(p.records)}

\* The number of spawns an arena has seen: each free bumped a generation.
RECURSIVE SpawnedFrom(_, _)
SpawnedFrom(p, i) ==
    IF i > Len(p.records) THEN 0
    ELSE p.records[i].generation
         + (IF p.records[i].payload # None THEN 1 ELSE 0)
         + SpawnedFrom(p, i + 1)
SpawnedIn(p) == SpawnedFrom(p, 1)

\* The tracks and empty animations of a scene.
RECURSIVE ItemsFrom(_, _)
ItemsFrom(animations, i) ==
    IF i > Len(animations) THEN 0
    ELSE (IF animations[i] = << >> THEN 1 ELSE Len(animations[i]))
         + ItemsFrom(animations, i + 1)
AnimationItems(animations) == ItemsFrom(animations, 1)

\* copy: the object the last step built from the one at hand (a clone, or
\* what was read back after writing it), nothing after any other step.
NoCopy == [op |-> "none"]

(* ------------------------------ actions -------------------------------- *)
\* Everything as construction leaves it.
Fresh ==
    /\ scenes = Pool_new
    /\ issued = << >>
    /\ resources = RcPool_new
    /\ rissued = << >>
    /\ request = NoRequest
    /\ node_rigid_body_map = EmptyMap
    /\ recent = EmptyMap
    /\ scene = Scene_default
    /\ surf_data_storage = RcPool_new
    /\ copy = NoCopy
    /\ last = [op |-> "init", h |-> Handle_NONE, ret |-> None]
    /\ panicked = FALSE
    /\ weight_set = VertexWeightSet_default
    /\ pushed = << >>

\* The engine state: scene container, resource cache, a physics binder.
Init ==
    /\ focus \in {"scenes", "cache", "binder"}
    /\ Fresh

\* The resource arena alone, used through the resource manager.
ResourcesInit ==
    /\ focus \in {"resources"}
    /\ Fresh

\* One scene (graph, physics, binder, animations) and the surface data
\* storage.
SceneInit ==
    /\ focus \in {"physics", "animation", "storage"}
    /\ Fresh

\* The resource cache with loaders that request resources themselves.
NestedInit ==
    /\ focus \in {"nested"}
    /\ Fresh

\* One set of vertex weights.
WeightsInit ==
    /\ focus \in {"weights"}
    /\ Fresh

\* One scene that is cloned with its links.
RebindInit ==
    /\ focus \in {"rebind"}
    /\ Fresh

\* One scene whose bodies move.
SyncInit ==
    /\ focus \in {"sync"}
    /\ Fresh

AddScene(v) ==
    /\ focus = "scenes" /\ ~panicked
    /\ Len(issued) < MaxSpawns
    /\ scenes.free_stack # << >> \/ Len(scenes.records) < MaxSlots
    /\ LET r == State_add_scene(scenes, v)
       IN /\ scenes' = r.pool
          /\ issued' = Append(issued, [handle |-> r.handle, value |-> v, freedAt |-> 0])
          /\ last' = [op |-> "add_scene", h |-> r.handle, ret |-> Some(v)]
    /\ UNCHANGED <<weight_set, pushed, scene, surf_data_storage, copy, focus, resources, rissued, request, node_rigid_body_map, recent, panicked>>

RemoveScene(h) ==
    /\ focus = "scenes" /\ ~panicked
    /\ scenes' = SceneContainer_remove(scenes, h)
    /\ issued' = MarkFreed(h)
    /\ last' = [op |-> "remove", h |-> h, ret |-> None]
    /\ UNCHANGED <<weight_set, pushed, scene, surf_data_storage, copy, focus, resources, rissued, request, node_rigid_body_map, recent, panicked>>

GetScene(h) ==
    /\ focus = "scenes" /\ ~panicked
    /\ LET r == State_get_scene(scenes, h)
       IN /\ last' = [op |-> "get_scene", h |-> h, ret |-> r.ret]
          /\ panicked' = r.panic
    /\ UNCHANGED <<weight_set, pushed, scene, surf_data_storage, copy, focus, scenes, issued, resources, rissued, request, node_rigid_body_map, recent>>

AddResource(v) ==
    /\ focus = "resources" /\ ~panicked
    /\ Len(rissued) < MaxSpawns
    /\ resources.free_stack # << >> \/ Len(resources.records) < MaxSlots
    /\ LET r == ResourceManager_add_resource(resources, v)
       IN /\ resources' = r.pool
          /\ rissued' = Append(rissued, [handle |-> r.handle, value |-> v,
                                            refs |-> 1, holders |-> 1])
          /\ last' = [op |-> "add_resource", h |-> r.handle, ret |-> Some(v)]
    /\ UNCHANGED <<weight_set, pushed, scene, surf_data_storage, copy, focus, request, scenes, issued, node_rigid_body_map, recent, panicked>>

ShareResourceHandle(h) ==
    /\ focus \in {"resources", "cache"} /\ ~panicked
    /\ RcPool_is_valid(resources, h) => resources.records[h.index + 1].ref_count < MaxRef
    /\ \A k \in 1..Len(rissued) : rissued[k].handle = h => rissued[k].holders < MaxRef
    /\ LET r == ResourceManager_share_resource_handle(resources, h)
       IN /\ resources' = r.pool
          /\ rissued' = IF Handle_is_none(r.handle) THEN rissued ELSE Retain(h)
          /\ last' = [op |-> "share_handle", h |-> h, ret |-> Some(r.handle)]
    /\ request' = NoRequest
    /\ UNCHANGED <<weight_set, pushed, scene, surf_data_storage, copy, focus, scenes, issued, node_rigid_body_map, recent, panicked>>

Release(h) ==
    /\ focus \in {"resources", "cache"} /\ ~panicked
    /\ resources' = RcPool_release(resources, h)
    /\ rissued' = Drop(h)
    /\ last' = [op |-> "release", h |-> h, ret |-> None]
    /\ request' = NoRequest
    /\ UNCHANGED <<weight_set, pushed, scene, surf_data_storage, copy, focus, scenes, issued, node_rigid_body_map, recent, panicked>>

BorrowResource(h) ==
    /\ focus = "resources" /\ ~panicked
    /\ last' = [op |-> "borrow_resource", h |-> h,
                ret |-> ResourceManager_borrow_resource(resources, h)]
    /\ request' = NoRequest
    /\ UNCHANGED <<weight_set, pushed, scene, surf_data_storage, copy, focus, scenes, issued, resources, rissued, node_rigid_body_map, recent, panicked>>

Bind(node, rigid_body) ==
    /\ focus = "binder" /\ ~panicked
    /\ LET r == PhysicsBinder_bind(node_rigid_body_map, node, rigid_body)
       IN /\ node_rigid_body_map' = r.map
          /\ recent' = [k \in DOMAIN recent \cup {node} |->
                           IF k = node THEN rigid_body ELSE recent[k]]
          /\ last' = [op |-> "bind", h |-> node, ret |-> r.ret]
    /\ UNCHANGED <<weight_set, pushed, scene, surf_data_storage, copy, focus, scenes, issued, resources, rissued, request, panicked>>

Unbind(node) ==
    /\ focus = "binder" /\ ~panicked
    /\ LET r == PhysicsBinder_unbind(node_rigid_body_map, node)
       IN /\ node_rigid_body_map' = r.map
          /\ recent' = [k \in DOMAIN recent \ {node} |-> recent[k]]
          /\ last' = [op |-> "unbind", h |-> node, ret |-> r.ret]
    /\ UNCHANGED <<weight_set, pushed, scene, surf_data_storage, copy, focus, scenes, issued, resources, rissued, request, panicked>>

GetSceneMut(h) ==
    /\ focus = "scenes" /\ ~panicked
    /\ LET r == State_get_scene_mut(scenes, h)
       IN /\ last' = [op |-> "get_scene_mut", h |-> h, ret |-> r.ret]
          /\ panicked' = r.panic
    /\ UNCHANGED <<weight_set, pushed, scene, surf_data_storage, copy, focus, scenes, issued, resources, rissued, request, node_rigid_body_map, recent>>

\* A request and the caller keeping the handle it got.  A request that
\* loads spawns; one that finds the entry hands out its handle once more.
RequestResource(path, ok) ==
    /\ focus = "cache" /\ ~panicked
    /\ \E r \in {State_request_resource(resources, path, ok)} :
       LET inserted == r.pool # resources
       IN /\ inserted => /\ Len(rissued) < MaxLoads
                         /\ resources.free_stack # << >> \/ Len(resources.records) < MaxSlots
          /\ (~inserted /\ ~Handle_is_none(r.handle)) =>
                \A k \in 1..Len(rissued) :
                    rissued[k].handle = r.handle => rissued[k].holders < MaxRef
          /\ resources' = r.pool
          /\ rissued' = IF inserted
                        THEN Append(rissued,
                                [handle |-> r.handle,
                                 value |-> Resource_new(path, r.loaded[1]),
                                 refs |-> 1, holders |-> 1])
                        ELSE IF Handle_is_none(r.handle) THEN rissued
                        ELSE Hand(r.handle)
          /\ request' = [path |-> path, loaded |-> r.loaded, printed |-> r.printed]
          /\ last' = [op |-> "request_resource", h |-> r.handle, ret |-> None]
    /\ UNCHANGED <<weight_set, pushed, scene, surf_data_storage, copy, focus, scenes, issued, node_rigid_body_map, recent, panicked>>

\* What the loaders of one request for path may do: the outcome of the
\* loader and, for a model loader and to depth d, the request it makes while
\* loading.  No loader runs for a path of an unknown kind.
RECURSIVE LoaderPlans(_, _)
LoaderPlans(path, d) ==
    LET a == LoaderFor(LowerExtension(path))
        NestedRequests ==
            IF a # "Model" \/ d = 0 THEN {}
            ELSE UNION {{<<[path |-> q, plan |-> plan]>> :
                            plan \in LoaderPlans(q, d - 1)} : q \in Paths}
    IN IF a = "Unknown" THEN {[ok |-> FALSE, nested |-> << >>]}
       ELSE {[ok |-> ok, nested |-> n] :
                ok \in BOOLEAN, n \in {<< >>} \cup NestedRequests}

RequestNested(path, plan) ==
    /\ focus = "nested" /\ ~panicked
    /\ \E r \in {State_request_resource_nested(resources, path, plan)} :
          /\ Len(r.pool.records) <= MaxSlots
          /\ SpawnedIn(r.pool) <= MaxLoads + MaxNesting
          /\ \A i \in 1..Len(r.pool.records) : r.pool.records[i].ref_count <= MaxRef
          /\ resources' = r.pool
          /\ request' = [path |-> path, loaded |-> r.loaded, printed |-> r.printed]
          /\ last' = [op |-> "request_resource", h |-> r.handle, ret |-> None]
    /\ UNCHANGED <<weight_set, pushed, focus, scenes, issued, rissued, node_rigid_body_map, recent,
                   scene, surf_data_storage, copy, panicked>>

\* A holder of a reference on an entry gives it up.
ReleaseNested(h) ==
    /\ focus = "nested" /\ ~panicked
    /\ RcPool_borrow(resources, h) # None
    /\ resources' = RcPool_release(resources, h)
    /\ request' = NoRequest
    /\ last' = [op |-> "release", h |-> h, ret |-> None]
    /\ UNCHANGED <<weight_set, pushed, focus, scenes, issued, rissued, node_rigid_body_map, recent,
                   scene, surf_data_storage, copy, panicked>>

(* Scene: graph, physics world, binder, animations. *)
NodeInputs == IssuedOf(scene.graph) \cup {Handle_NONE}
BodyInputs == IssuedOf(scene.physics) \cup {Handle_NONE}
TrackSeqs(n) == UNION {[1..k -> NodeInputs] : k \in 0..n}

\* What a step may do to the bodies: anything where the positions are
\* followed, nothing elsewhere.
StepOutcomes ==
    IF focus = "sync"
    THEN [1..Len(scene.physics.records) -> Positions]
    ELSE {Physics_at_rest(scene.physics)}

SceneRoom ==
    IF focus = "physics"
    THEN MaxPhysicsSpawns - SpawnedIn(scene.graph) - SpawnedIn(scene.physics)
    ELSE IF focus = "sync"
    THEN MaxSyncSpawns - SpawnedIn(scene.graph) - SpawnedIn(scene.physics)
    ELSE IF focus = "rebind"
    THEN MaxRebindSpawns - SpawnedIn(scene.graph) - SpawnedIn(scene.physics)
    ELSE MaxAnimationItems - SpawnedIn(scene.graph) - AnimationItems(scene.animations)

AddNode(parent) ==
    /\ focus \in {"physics", "animation", "sync", "rebind"} /\ ~panicked
    /\ SceneRoom > 0
    /\ scene.graph.free_stack # << >> \/ Len(scene.graph.records) < MaxSlots
    /\ Handle_is_none(parent)
          \/ (focus \in {"animation", "sync"} /\ Pool_borrow(scene.graph, parent) # None)
    /\ LET r == Graph_add_node(scene.graph, parent)
       IN /\ scene' = [scene EXCEPT !.graph = r.pool]
          /\ last' = [op |-> "add_node", h |-> Handle_NONE, ret |-> None]
    /\ copy' = NoCopy
    /\ UNCHANGED <<weight_set, pushed, focus, scenes, issued, resources, rissued, request,
                   node_rigid_body_map, recent, surf_data_storage, panicked>>

\* last.ret keeps the scene remove_node found.
RemoveNode(h) ==
    /\ focus \in {"physics", "animation", "sync", "rebind"} /\ ~panicked
    /\ Pool_borrow(scene.graph, h) # None
    /\ scene' = Scene_remove_node(scene, h)
    /\ last' = [op |-> "remove_node", h |-> h, ret |-> Some(scene)]
    /\ copy' = NoCopy
    /\ UNCHANGED <<weight_set, pushed, focus, scenes, issued, resources, rissued, request,
                   node_rigid_body_map, recent, surf_data_storage, panicked>>

AddBody ==
    /\ focus \in {"physics", "sync", "rebind"} /\ ~panicked
    /\ SceneRoom > 0
    /\ scene.physics.free_stack # << >> \/ Len(scene.physics.records) < MaxSlots
    /\ LET r == Physics_add_body(scene.physics)
       IN /\ scene' = [scene EXCEPT !.physics = r.pool]
          /\ last' = [op |-> "add_body", h |-> Handle_NONE, ret |-> None]
    /\ copy' = NoCopy
    /\ UNCHANGED <<weight_set, pushed, focus, scenes, issued, resources, rissued, request,
                   node_rigid_body_map, recent, surf_data_storage, panicked>>

RemoveBody(h) ==
    /\ focus \in {"physics", "sync", "rebind"} /\ ~panicked
    /\ Pool_borrow(scene.physics, h) # None
    /\ scene' = [scene EXCEPT !.physics = Physics_remove_body(scene.physics, h)]
    /\ last' = [op |-> "remove_body", h |-> Handle_NONE, ret |-> None]
    /\ copy' = NoCopy
    /\ UNCHANGED <<weight_set, pushed, focus, scenes, issued, resources, rissued, request,
                   node_rigid_body_map, recent, surf_data_storage, panicked>>

BindBody(node, body) ==
    /\ focus \in {"physics", "sync", "rebind"} /\ ~panicked
    /\ LET r == PhysicsBinder_bind(scene.physics_binder, node, body)
       IN /\ scene' = [scene EXCEPT !.physics_binder = r.map]
          /\ last' = [op |-> "bind_body", h |-> Handle_NONE, ret |-> None]
    /\ copy' = NoCopy
    /\ UNCHANGED <<weight_set, pushed, focus, scenes, issued, resources, rissued, request,
                   node_rigid_body_map, recent, surf_data_storage, panicked>>

UnbindBody(node) ==
    /\ focus = "rebind" /\ ~panicked
    /\ LET r == PhysicsBinder_unbind(scene.physics_binder, node)
       IN /\ scene' = [scene EXCEPT !.physics_binder = r.map]
          /\ last' = [op |-> "unbind_body", h |-> Handle_NONE, ret |-> None]
    /\ copy' = NoCopy
    /\ UNCHANGED <<weight_set, pushed, focus, scenes, issued, resources, rissued, request,
                   node_rigid_body_map, recent, surf_data_storage, panicked>>

\* last.ret keeps the table update_physics found.
UpdatePhysics(to) ==
    /\ focus \in {"physics", "sync"} /\ ~panicked
    /\ LET r == Scene_update_physics(scene, to)
       IN /\ scene' = r.scene
          /\ panicked' = r.panic
    /\ last' = [op |-> "update_physics", h |-> Handle_NONE,
                ret |-> Some(scene.physics_binder)]
    /\ copy' = NoCopy
    /\ UNCHANGED <<weight_set, pushed, focus, scenes, issued, resources, rissued, request,
                   node_rigid_body_map, recent, surf_data_storage>>

AddAnimation(tracks) ==
    /\ focus = "animation" /\ ~panicked
    /\ (IF tracks = << >> THEN 1 ELSE Len(tracks)) <= SceneRoom
    /\ scene' = [scene EXCEPT !.animations = Append(@, tracks)]
    /\ last' = [op |-> "add_animation", h |-> Handle_NONE, ret |-> None]
    /\ copy' = NoCopy
    /\ UNCHANGED <<weight_set, pushed, focus, scenes, issued, resources, rissued, request,
                   node_rigid_body_map, recent, surf_data_storage, panicked>>

\* keep: the slots of the nodes the filter accepts.
Clone(keep) ==
    /\ focus \in {"animation", "rebind"} /\ ~panicked
    /\ LET r == Scene_clone(scene, keep)
       IN /\ copy' = [op |-> "clone", scene |-> r.scene,
                      old_new_map |-> r.old_new_map, keep |-> keep]
          /\ panicked' = r.panic
    /\ last' = [op |-> "clone", h |-> Handle_NONE, ret |-> None]
    /\ UNCHANGED <<weight_set, pushed, focus, scenes, issued, resources, rissued, request,
                   node_rigid_body_map, recent, scene, surf_data_storage>>

ReloadScene(generations) ==
    /\ focus = "physics" /\ ~panicked
    /\ copy' = [op |-> "load", scene |-> Scene_visit(scene, generations),
                generations |-> generations]
    /\ last' = [op |-> "visit", h |-> Handle_NONE, ret |-> None]
    /\ UNCHANGED <<weight_set, pushed, focus, scenes, issued, resources, rissued, request,
                   node_rigid_body_map, recent, scene, surf_data_storage, panicked>>

(* VertexWeightSet.  pushed: the weights pushed so far, each with what push
   returned. *)
Push(weight) ==
    /\ focus = "weights" /\ ~panicked
    /\ Len(pushed) < MaxPushes
    /\ LET r == VertexWeightSet_push(weight_set, weight)
       IN /\ weight_set' = r.set
          /\ pushed' = Append(pushed, [weight |-> weight, ret |-> r.ret])
          /\ last' = [op |-> "push", h |-> Handle_NONE, ret |-> Some(r.ret)]
    /\ UNCHANGED <<focus, scenes, issued, resources, rissued, request,
                   node_rigid_body_map, recent, scene, surf_data_storage, copy,
                   panicked>>

IterWeights ==
    /\ focus = "weights" /\ ~panicked
    /\ last' = [op |-> "iter", h |-> Handle_NONE,
                ret |-> Some(VertexWeightSet_iter(weight_set))]
    /\ UNCHANGED <<focus, scenes, issued, resources, rissued, request,
                   node_rigid_body_map, recent, scene, surf_data_storage, copy,
                   panicked, weight_set, pushed>>

(* State::surf_data_storage. *)
StoreSpawn(v) ==
    /\ focus = "storage" /\ ~panicked
    /\ SpawnedIn(surf_data_storage) < MaxStored
    /\ surf_data_storage.free_stack # << >> \/ Len(surf_data_storage.records) < MaxSlots
    /\ LET r == RcPool_spawn(surf_data_storage, v)
       IN /\ surf_data_storage' = r.pool
          /\ last' = [op |-> "spawn", h |-> r.handle, ret |-> None]
    /\ copy' = NoCopy
    /\ UNCHANGED <<weight_set, pushed, focus, scenes, issued, resources, rissued, request,
                   node_rigid_body_map, recent, scene, panicked>>

StoreShare(h) ==
    /\ focus = "storage" /\ ~panicked
    /\ RcPool_borrow(surf_data_storage, h) # None
    /\ surf_data_storage.records[h.index + 1].ref_count < MaxRef
    /\ surf_data_storage' = RcPool_share_handle(surf_data_storage, h).pool
    /\ last' = [op |-> "share_handle", h |-> h, ret |-> None]
    /\ copy' = NoCopy
    /\ UNCHANGED <<weight_set, pushed, focus, scenes, issued, resources, rissued, request,
                   node_rigid_body_map, recent, scene, panicked>>

StoreRelease(h) ==
    /\ focus = "storage" /\ ~panicked
    /\ RcPool_borrow(surf_data_storage, h) # None
    /\ surf_data_storage' = RcPool_release(surf_data_storage, h)
    /\ last' = [op |-> "release", h |-> h, ret |-> None]
    /\ copy' = NoCopy
    /\ UNCHANGED <<weight_set, pushed, focus, scenes, issued, resources, rissued, request,
                   node_rigid_body_map, recent, scene, panicked>>

ReloadState(generations) ==
    /\ focus = "storage" /\ ~panicked
    /\ copy' = [op |-> "load",
                storage |-> State_reload(surf_data_storage, generations),
                generations |-> generations]
    /\ last' = [op |-> "reload", h |-> Handle_NONE, ret |-> None]
    /\ UNCHANGED <<weight_set, pushed, focus, scenes, issued, resources, rissued, request,
                   node_rigid_body_map, recent, scene, surf_data_storage, panicked>>

(* Iteration. *)
IterScenes ==
    /\ focus = "scenes" /\ ~panicked
    /\ last' = [op |-> "iter", h |-> Handle_NONE, ret |-> SceneContainer_iter(scenes)]
    /\ UNCHANGED <<weight_set, pushed, focus, scenes, issued, resources, rissued, request,
                   node_rigid_body_map, recent, scene, surf_data_storage, copy, panicked>>

ForEachTextureMut ==
    /\ focus = "cache" /\ ~panicked
    /\ last' = [op |-> "for_each_texture_mut", h |-> Handle_NONE,
                ret |-> ResourceManager_for_each_texture_mut(resources)]
    /\ request' = NoRequest
    /\ UNCHANGED <<weight_set, pushed, focus, scenes, issued, resources, rissued,
                   node_rigid_body_map, recent, scene, surf_data_storage, copy, panicked>>

Next ==
    \/ \E v \in Values : AddScene(v)
    \/ \E h \in HandleInputs : RemoveScene(h)
    \/ \E h \in HandleInputs : GetScene(h)
    \/ \E h \in HandleInputs : GetSceneMut(h)
    \/ \E h \in RcHandleInputs : ShareResourceHandle(h)
    \/ \E h \in RcHandleInputs : Release(h)
    \/ \E path \in Paths, ok \in BOOLEAN : RequestResource(path, ok)
    \/ \E a \in LinkHandles, b \in LinkHandles : Bind(a, b)
    \/ \E a \in LinkHandles : Unbind(a)
    \/ IterScenes
    \/ ForEachTextureMut

ResourcesNext ==
    \/ \E v \in Values : AddResource(v)
    \/ \E h \in RcHandleInputs : ShareResourceHandle(h)
    \/ \E h \in RcHandleInputs : Release(h)
    \/ \E h \in RcHandleInputs : BorrowResource(h)

SceneNext ==
    \/ \E parent \in NodeInputs : AddNode(parent)
    \/ \E h \in NodeInputs : RemoveNode(h)
    \/ AddBody
    \/ \E h \in BodyInputs : RemoveBody(h)
    \/ \E node \in NodeInputs, body \in BodyInputs : BindBody(node, body)
    \/ \E to \in StepOutcomes : UpdatePhysics(to)
    \/ \E tracks \in TrackSeqs(SceneRoom) : AddAnimation(tracks)
    \/ \E keep \in SUBSET {h.index : h \in Range(OccupiedHandles(scene.graph))} : Clone(keep)
    \/ \E generations \in Generations : ReloadScene(generations)
    \/ \E v \in Values : StoreSpawn(v)
    \/ \E h \in IssuedOf(surf_data_storage) : StoreShare(h)
    \/ \E h \in IssuedOf(surf_data_storage) : StoreRelease(h)
    \/ \E generations \in Generations : ReloadState(generations)

Spec == Init /\ [][Next]_vars
SyncNext ==
    \/ \E parent \in NodeInputs : AddNode(parent)
    \/ \E h \in NodeInputs : RemoveNode(h)
    \/ AddBody
    \/ \E h \in BodyInputs : RemoveBody(h)
    \/ \E node \in NodeInputs, body \in BodyInputs : BindBody(node, body)
    \/ \E to \in StepOutcomes : UpdatePhysics(to)

RebindNext ==
    \/ \E parent \in NodeInputs : AddNode(parent)
    \/ \E h \in NodeInputs : RemoveNode(h)
    \/ AddBody
    \/ \E h \in BodyInputs : RemoveBody(h)
    \/ \E node \in NodeInputs, body \in BodyInputs : BindBody(node, body)
    \/ \E node \in NodeInputs : UnbindBody(node)
    \/ \E keep \in SUBSET {h.index : h \in Range(OccupiedHandles(scene.graph))} : Clone(keep)

NestedNext ==
    \/ \E path \in Paths : \E plan \in LoaderPlans(path, MaxNesting) :
          RequestNested(path, plan)
    \/ \E h \in IssuedOf(resources) : ReleaseNested(h)

WeightsNext ==
    \/ \E weight \in Weights : Push(weight)
    \/ IterWeights

ResourcesSpec == ResourcesInit /\ [][ResourcesNext]_vars
SceneSpec == SceneInit /\ [][SceneNext]_vars
SyncSpec == SyncInit /\ [][SyncNext]_vars
RebindSpec == RebindInit /\ [][RebindNext]_vars
NestedSpec == NestedInit /\ [][NestedNext]_vars
WeightsSpec == WeightsInit /\ [][WeightsNext]_vars

(* ============================== claims ================================= *)
Live(k) == issued[k].freedAt = 0
Entries == 1..Len(issued)
Borrow(h) == State_get_scene(scenes, h).ret
SlotOf(h) == scenes.records[h.index + 1]

\* C1 (generation soundness): once free has been called with a handle that
\* spawn returned, borrowing through that handle yields nothing, whatever
\* was spawned since, also when a new value now sits in the handle's slot.
C1_GenerationSoundness ==
    \A k \in Entries : ~Live(k) => Borrow(issued[k].handle) = None

\* A freed handle whose slot holds a value spawned after the free.
C1_Witness ==
    \E j \in Entries, k \in Entries :
        /\ j < k /\ ~Live(j) /\ Live(k)
        /\ issued[j].handle.index = issued[k].handle.index
        /\ issued[j].freedAt < k
        /\ SlotOf(issued[j].handle).payload = Some(issued[k].value)

\* C2: over the whole history a handle value is issued for at most one
\* payload: no two spawns return the same handle, so no handle reaches two
\* live payloads and no handle of a freed payload is valid for a later one.
C2_HandleNamesOnePayload ==
    /\ \A j \in Entries, k \in Entries : j # k => issued[j].handle # issued[k].handle
    /\ \A j \in Entries : ~Live(j) => ~Pool_is_valid(scenes, issued[j].handle)

\* Two payloads live at once and a third, freed, whose slot one of them reuses.
C2_Witness ==
    \E i \in Entries, j \in Entries, k \in Entries :
        /\ i < j /\ j # k /\ Live(j) /\ Live(k) /\ ~Live(i)
        /\ issued[i].handle.index = issued[j].handle.index

\* C3: from its spawn until free is called with its handle, an entry stays
\* borrowable through that handle and yields the value spawned, whatever
\* other operations happen (in the RcPool: while a reference is held).
C3_LiveUntilFreed ==
    /\ \A k \in Entries : Live(k) => Borrow(issued[k].handle) = Some(issued[k].value)
    /\ \A k \in 1..Len(rissued) :
          rissued[k].refs > 0 =>
             ResourceManager_borrow_resource(resources, rissued[k].handle)
                = Some(rissued[k].value)

\* A live entry right after a free through a stale handle of its own slot.
C3_Witness ==
    /\ last.op = "remove"
    /\ \E j \in Entries, k \in Entries :
          /\ j < k /\ Live(k) /\ ~Live(j) /\ issued[j].freedAt < k
          /\ issued[j].handle = last.h
          /\ issued[j].handle.index = issued[k].handle.index
          /\ Borrow(issued[k].handle) = Some(issued[k].value)

\* C4: free with a handle that is not the handle of a live entry (none, out
\* of range, already freed, stale generation) changes nothing in the pool:
\* every slot's payload and generation and the free stack stay as they are.
C4_InvalidFreeIsNoOp ==
    \A h \in HandleInputs :
        (~\E k \in Entries : Live(k) /\ issued[k].handle = h)
            => SceneContainer_remove(scenes, h) = scenes

\* A second free through a handle whose slot a newer live entry occupies.
C4_Witness ==
    /\ last.op = "remove"
    /\ \E j \in Entries, k \in Entries :
          /\ j < k /\ Live(k) /\ issued[j].freedAt # 0 /\ issued[j].freedAt < k
          /\ issued[j].handle = last.h
          /\ issued[j].handle.index = issued[k].handle.index
          /\ SlotOf(last.h).payload # None

\* C5 (reuse correctness): of two handles issued for the same index, the
\* later one has the strictly greater generation.
C5_ReuseCorrectness ==
    \A j \in Entries, k \in Entries :
        (j < k /\ issued[j].handle.index = issued[k].handle.index)
            => issued[j].handle.generation < issued[k].handle.generation

\* A slot that has been issued three times.
C5_Witness ==
    \E i \in Entries, j \in Entries, k \in Entries :
        /\ i < j /\ j < k
        /\ issued[i].handle.index = issued[j].handle.index
        /\ issued[j].handle.index = issued[k].handle.index

\* A step that spawned: the log grew by one entry.
Spawned == Len(issued') = Len(issued) + 1
\* A step in which free was first called with the handle of entry k.
FreedNow(k) == k \in Entries /\ Live(k) /\ issued'[k].freedAt # 0

C6_SpawnStep ==
    Spawned =>
        LET e == issued'[Len(issued')]
            h == e.handle
            n == Len(scenes.free_stack)
        IN /\ IF n > 0
              THEN /\ h.index = scenes.free_stack[n]
                   /\ scenes'.free_stack = SubSeq(scenes.free_stack, 1, n - 1)
                   /\ Len(scenes'.records) = Len(scenes.records)
              ELSE /\ h.index = Len(scenes.records)
                   /\ scenes'.free_stack = << >>
                   /\ Len(scenes'.records) = Len(scenes.records) + 1
           /\ scenes'.records[h.index + 1] = [payload |-> Some(e.value),
                                              generation |-> h.generation]
           /\ \A i \in 1..Len(scenes.records) :
                 i # h.index + 1 => scenes'.records[i] = scenes.records[i]

C6_FreeStep ==
    \A k \in Entries :
        FreedNow(k) => scenes'.free_stack = Append(scenes.free_stack, issued[k].handle.index)

C6_Scenario ==
    /\ Len(issued) >= 1 => issued[1].handle = Handle_new(0, 0)
    /\ (/\ Len(issued) = 2
        /\ issued[1].value = "A" /\ issued[1].freedAt = 1
        /\ issued[2].value = "B" /\ issued[2].freedAt = 0)
       => /\ issued[1].handle = Handle_new(0, 0)
          /\ issued[2].handle = Handle_new(0, 1)
          /\ Borrow(issued[1].handle) = None
          /\ Borrow(issued[2].handle) = Some("B")

\* C6: spawn fills the slot on top of the free stack (the index freed most
\* recently) when there is one and appends a slot only when the stack is
\* empty; the handle returned carries the slot's generation.  On an empty
\* pool spawn(A), free(h1), spawn(B) gives h1 = (0, 0), h2 = (0, 1),
\* borrow(h1) empty and borrow(h2) = B.
C6_SpawnReusesTopOfFreeStack ==
    [](C6_Scenario) /\ [][C6_SpawnStep /\ C6_FreeStep]_vars

\* The scenario's final state: A spawned, freed, then B spawned.
C6_Witness ==
    /\ Len(issued) = 2
    /\ issued[1].value = "A" /\ issued[1].freedAt = 1
    /\ issued[2].value = "B" /\ issued[2].freedAt = 0
    /\ last.op = "get_scene" /\ last.h = issued[2].handle /\ last.ret = Some("B")

C7_Monotone ==
    /\ \A i \in 1..Len(scenes.records) :
          /\ i <= Len(scenes'.records)
          /\ scenes'.records[i].generation >= scenes.records[i].generation
    /\ \A i \in 1..Len(resources.records) :
          /\ i <= Len(resources'.records)
          /\ resources'.records[i].generation >= resources.records[i].generation

C7_BumpAtFree ==
    \A k \in Entries :
        FreedNow(k) =>
            LET h == issued[k].handle
            IN /\ scenes'.records[h.index + 1].generation
                    = scenes.records[h.index + 1].generation + 1
               /\ scenes'.records[h.index + 1].generation # h.generation
               /\ ~Pool_is_valid(scenes', h)

C7_FreedInvalid ==
    (last.op = "remove" /\ last.h \in IssuedHandles)
        => /\ ~Pool_is_valid(scenes, last.h)
           /\ SlotOf(last.h).generation > last.h.generation

\* C7: no step lowers a slot's generation, and a valid free raises it in
\* the same step: right after free(h), before any spawn, the slot's
\* generation differs from h.generation and h is not valid.
C7_GenerationBumpedAtFree ==
    [](C7_FreedInvalid) /\ [][C7_Monotone /\ C7_BumpAtFree]_vars

\* Right after the free of a live handle: its slot is still empty.
C7_Witness ==
    /\ last.op = "remove" /\ last.h \in IssuedHandles
    /\ SlotOf(last.h).payload = None
    /\ SlotOf(last.h).generation = last.h.generation + 1

NotLive(h) == ~\E k \in Entries : Live(k) /\ issued[k].handle = h
NotHeld(h) == ~\E k \in 1..Len(rissued) : rissued[k].refs > 0 /\ rissued[k].handle = h

RcSlots == 1..Len(resources.records)
RcOccupied(p, i) == p.records[i].payload # None

C10_CountZeroIffFree ==
    /\ \A i \in RcSlots :
          /\ resources.records[i].ref_count >= 0
          /\ resources.records[i].ref_count = 0 <=> ~RcOccupied(resources, i)
    /\ \A i \in 0..(Len(resources.records) - 1) :
          ~RcOccupied(resources, i + 1)
             <=> \E n \in 1..Len(resources.free_stack) : resources.free_stack[n] = i

C10_FreedAtLastRelease ==
    \A i \in RcSlots :
        /\ (RcOccupied(resources, i) /\ ~RcOccupied(resources', i))
              => /\ last'.op = "release" /\ last'.h.index = i - 1
                 /\ resources.records[i].ref_count = 1
        /\ (/\ last'.op = "release" /\ last'.h.index = i - 1
            /\ last'.h.generation = resources.records[i].generation
            /\ resources.records[i].ref_count > 1)
              => /\ RcOccupied(resources', i)
                 /\ resources'.records[i].ref_count = resources.records[i].ref_count - 1

\* C10: in the RcPool a slot's ref_count is 0 exactly when the slot is free
\* and never negative; a slot turns free only in a release step that finds
\* its count at 1, and a release that finds a higher count leaves it occupied.
C10_RefCountZeroIffFree ==
    [](C10_CountZeroIffFree) /\ [][C10_FreedAtLastRelease]_vars

\* An entry after its last release: the slot is free, its count 0.
C10_Witness ==
    /\ last.op = "release"
    /\ \E k \in 1..Len(rissued) :
          /\ rissued[k].handle = last.h /\ rissued[k].refs = 0
          /\ resources.records[last.h.index + 1].ref_count = 0
          /\ resources.records[last.h.index + 1].payload = None
          /\ resources.records[last.h.index + 1].generation = last.h.generation + 1

REntries == 1..Len(rissued)
RcSlotOf(h) == resources.records[h.index + 1]

\* C11 (ref-count balance): an entry spawned and shared n times is live,
\* borrowable and counted n + 1 - r after r <= n releases, and free with its
\* generation bumped (every copy of the handle invalid) after n + 1; a
\* release beyond that changes nothing, whatever now sits in the slot.
C11_RefCountBalance ==
    /\ \A k \in REntries :
          LET e == rissued[k]
          IN IF e.refs > 0
             THEN /\ ResourceManager_borrow_resource(resources, e.handle) = Some(e.value)
                  /\ RcSlotOf(e.handle).ref_count = e.refs
             ELSE /\ ~RcPool_is_valid(resources, e.handle)
                  /\ ResourceManager_borrow_resource(resources, e.handle) = None
                  /\ RcSlotOf(e.handle).generation > e.handle.generation
    /\ \A h \in RcHandleInputs : NotHeld(h) => RcPool_release(resources, h) = resources

\* A release beyond the last one, through a handle whose slot holds a value
\* spawned later and still shared.
C11_Witness ==
    /\ last.op = "release" /\ NotHeld(last.h)
    /\ \E j \in REntries, k \in REntries :
          /\ j < k /\ rissued[j].handle = last.h
          /\ rissued[k].handle.index = last.h.index
          /\ rissued[k].refs = 2
          /\ RcSlotOf(last.h).ref_count = 2

\* C12: share_handle on the handle of a held entry raises that slot's count
\* by one, changes nothing else and returns the same handle; on any other
\* handle it returns the none handle and the pool is unchanged.
C12_ShareHandle ==
    \A h \in RcHandleInputs :
        LET r == ResourceManager_share_resource_handle(resources, h)
        IN IF NotHeld(h)
           THEN r = [pool |-> resources, handle |-> Handle_NONE]
           ELSE /\ r.handle = h
                /\ r.pool = [resources EXCEPT
                                !.records[h.index + 1].ref_count = @ + 1]

\* share_handle just returned the handle of an entry now counted twice.
C12_Witness ==
    /\ last.op = "share_handle" /\ last.ret = Some(last.h)
    /\ ~Handle_is_none(last.h)
    /\ RcSlotOf(last.h).ref_count = 2
    /\ \E k \in REntries : rissued[k].handle = last.h /\ rissued[k].refs = 2

\* The occupied slots of the resource arena whose resource has the path.
SlotsWithPath(path) ==
    {i \in RcSlots : RcOccupied(resources, i)
                     /\ resources.records[i].payload[1].path = path}

C13_OnePerPath ==
    \A path \in Paths : Cardinality(SlotsWithPath(path)) <= 1

C13_SecondRequest ==
    \A k \in REntries :
        rissued[k].refs > 0 =>
            \A ok \in BOOLEAN :
                State_request_resource(resources, rissued[k].value.path, ok)
                    = [pool |-> resources, handle |-> rissued[k].handle,
                       loaded |-> << >>, printed |-> << >>]

C13_ReturnedBorrows ==
    (last.op = "request_resource" /\ ~Handle_is_none(last.h)) =>
        /\ ResourceManager_borrow_resource(resources, last.h) # None
        /\ ResourceManager_borrow_resource(resources, last.h)[1].path = request.path

C14_CountPerHolder ==
    focus = "cache" =>
        \A k \in REntries :
            rissued[k].refs > 0 =>
                /\ RcSlotOf(rissued[k].handle).ref_count = rissued[k].holders
                /\ rissued[k].holders >= 2 =>
                      RcPool_is_valid(RcPool_release(resources, rissued[k].handle),
                                      rissued[k].handle)

\* C15: find_resource(path), when an occupied slot with that path exists,
\* returns the handle of the first such slot in index order and increases
\* that slot's ref_count by one; when none exists it returns the none
\* handle and changes nothing.
C15_FindIncrements ==
    focus = "cache" =>
        \A path \in Paths :
            LET r == ResourceManager_find_resource(resources, path)
                found == SlotsWithPath(path)
            IN IF found # {}
               THEN LET i == CHOOSE n \in found : \A o \in found : n <= o
                    IN /\ r.handle = Handle_new(i - 1, resources.records[i].generation)
                       /\ r.pool = [resources EXCEPT !.records[i].ref_count = @ + 1]
               ELSE r = [pool |-> resources, handle |-> Handle_NONE]

\* The path has an extension for which the match has a loader.
Loadable(path) == LoaderFor(LowerExtension(path)) # "Unknown"
FailureMessages == {"Unable to load texture!", "Unable to load model!"}

\* A request_resource step whose loader failed.
C16_FailedStep ==
    (/\ last'.op = "request_resource"
     /\ \E m \in FailureMessages : request'.printed = <<m>>)
        => /\ Handle_is_none(last'.h)
           /\ resources' = resources
           /\ request'.loaded # << >>
           /\ SlotsWithPath(request'.path) = {}

\* With no entry for a loadable path in the arena (in particular after any
\* failed load) a request runs the loader; failing it changes nothing and
\* returns the none handle, succeeding it inserts the resource and returns
\* a valid handle to it.
C16_LoadsAgain ==
    focus = "cache" =>
        \A path \in Paths :
            (Loadable(path) /\ SlotsWithPath(path) = {}) =>
                LET kind == LoaderFor(LowerExtension(path))
                    f == State_request_resource(resources, path, FALSE)
                    s == State_request_resource(resources, path, TRUE)
                IN /\ f.pool = resources /\ Handle_is_none(f.handle)
                   /\ f.loaded = <<kind>>
                   /\ s.loaded = <<kind>>
                   /\ RcPool_is_valid(s.pool, s.handle)
                   /\ ResourceManager_borrow_resource(s.pool, s.handle)
                         = Some(Resource_new(path, kind))

UnknownPaths ==
    { <<"a",".","t","x","t">>, <<"r","e","a","d","m","e">>, <<".","p","n","g">> }

UpperOf(c) == UpperCase[CHOOSE i \in 1..Len(LowerCase) : LowerCase[i] = c]
Spellings(e) ==
    {[n \in 1..Len(e) |-> IF up[n] THEN UpperOf(e[n]) ELSE e[n]] :
        up \in [1..Len(e) -> BOOLEAN]}

\* The loader a request for the path runs when the arena is empty.
Selected(path) ==
    LET r == State_request_resource(RcPool_new, path, TRUE)
    IN IF r.loaded = << >> THEN "Unknown" ELSE r.loaded[1]

\* The loader the table gives for the path, from the spellings.
Expected(path) ==
    LET x == Path_extension(path)
    IN IF x = None THEN "Unknown"
       ELSE IF \E e \in TextureExtensions : x[1] \in Spellings(e) THEN "Texture"
       ELSE IF \E e \in ModelExtensions : x[1] \in Spellings(e) THEN "Model"
       ELSE "Unknown"

\* Extensions without a loader, none and the empty one included.
OtherExtensions ==
    { << >>, <<"t","x","t">>, <<"p","n">>, <<"p","n","g","x">>, <<"F","B">>,
      <<"j","p","g","e">>, <<"o","b","j">> }

C18_Table ==
    /\ \A e \in TextureExtensions : \A c \in Spellings(e) :
          Selected(<<"d", "/", "t", ".">> \o c) = "Texture"
    /\ \A e \in ModelExtensions : \A c \in Spellings(e) :
          Selected(<<"m", ".">> \o c) = "Model"
    /\ \A x \in OtherExtensions : Selected(<<"a", ".">> \o x) = "Unknown"
    /\ \A p \in UnknownPaths \cup {<<"a", ".", "b", "/", "p", "n", "g">>} :
          Selected(p) = "Unknown"

C18_Requested ==
    last.op = "request_resource" =>
        IF request.loaded # << >>
        THEN request.loaded = <<Expected(request.path)>>
        ELSE Handle_is_none(last.h) => /\ Expected(request.path) = "Unknown"
                                       /\ request.printed = <<"Unknown resource type!">>

\* C18: the loader depends only on the lower-cased extension of the path:
\* every spelling of jpg, jpeg, png, tif, tiff, tga, bmp selects the texture
\* loader, every spelling of fbx the model loader, and every other
\* extension, none included, the unknown-kind outcome; each request that
\* has to load runs the loader so selected.
C18_LoaderSelection ==
    /\ C18_Table
    /\ focus = "cache" => C18_Requested

\* A request for t.PNG just ran the texture loader while t.png, loaded by
\* the same loader, has an entry of its own.
C18_Witness ==
    /\ last.op = "request_resource" /\ ~Handle_is_none(last.h)
    /\ request.path = <<"t", ".", "P", "N", "G">>
    /\ request.loaded = <<"Texture">>
    /\ \E i \in RcSlots :
          resources.records[i].payload
              = Some(Resource_new(<<"t", ".", "p", "n", "g">>, "Texture"))

RcOccupiedAt(p, i) == i <= Len(p.records) /\ RcOccupied(p, i)

\* One step of the cache: an entry appears only in a request_resource step
\* that found no entry for the path and whose loader succeeded; an entry
\* disappears only in a release step that found its count at 1; an entry
\* that stays keeps its resource.
C19_Step ==
    focus = "cache" =>
        \A i \in 1..Len(resources'.records) :
            /\ (~RcOccupiedAt(resources, i) /\ RcOccupied(resources', i))
                  => /\ last'.op = "request_resource"
                     /\ request'.loaded # << >> /\ request'.printed = << >>
                     /\ SlotsWithPath(request'.path) = {}
                     /\ last'.h = Handle_new(i - 1, resources'.records[i].generation)
                     /\ resources'.records[i].ref_count = 1
                     /\ resources'.records[i].payload
                           = Some(Resource_new(request'.path, request'.loaded[1]))
            /\ (RcOccupiedAt(resources, i) /\ ~RcOccupied(resources', i))
                  => /\ last'.op = "release"
                     /\ last'.h = Handle_new(i - 1, resources.records[i].generation)
                     /\ resources.records[i].ref_count = 1
            /\ (RcOccupiedAt(resources, i) /\ RcOccupied(resources', i))
                  => resources'.records[i].payload = resources.records[i].payload

\* An entry whose count reached zero is gone: its handle is invalid and
\* borrows nothing, whatever now sits in its slot, and unless the path was
\* loaded again a request for it runs the loader.
C19_GoneAtZero ==
    focus = "cache" =>
        \A k \in REntries :
            LET e == rissued[k]
            IN /\ e.refs > 0 <=> RcPool_is_valid(resources, e.handle)
               /\ e.refs = 0 =>
                     /\ ResourceManager_borrow_resource(resources, e.handle) = None
                     /\ SlotsWithPath(e.value.path) = {} =>
                           \A ok \in BOOLEAN :
                               State_request_resource(resources, e.value.path, ok).loaded
                                   = <<e.value.kind>>

C20_BindResult ==
    \A a \in LinkHandles, b \in LinkHandles :
        LET r == PhysicsBinder_bind(node_rigid_body_map, a, b)
        IN /\ r.ret = MapGet(node_rigid_body_map, a)
           /\ DOMAIN r.map = DOMAIN node_rigid_body_map \cup {a}
           /\ r.map[a] = b
           /\ \A k \in DOMAIN node_rigid_body_map :
                 k # a => r.map[k] = node_rigid_body_map[k]

\* C20: bind(a, b) makes b the target of a, returns the previous target of
\* a (None if a was unlinked) and leaves every other link alone; so after
\* any sequence of binds and unbinds each node has at most one linked body,
\* the one given by the most recent bind for that node.
C20_BindReplaces ==
    /\ C20_BindResult
    /\ node_rigid_body_map = recent
    /\ last.op = "bind" => MapGet(node_rigid_body_map, last.h) # None

\* bind just replaced the link of a node, returning the former body, while
\* another node keeps its link.
C20_Witness ==
    /\ last.op = "bind" /\ last.ret # None
    /\ last.ret # MapGet(node_rigid_body_map, last.h)
    /\ \E k \in DOMAIN node_rigid_body_map : k # last.h

C21_UnbindResult ==
    \A a \in LinkHandles :
        LET r == PhysicsBinder_unbind(node_rigid_body_map, a)
        IN /\ r.ret = MapGet(node_rigid_body_map, a)
           /\ DOMAIN r.map = DOMAIN node_rigid_body_map \ {a}
           /\ \A k \in DOMAIN r.map : r.map[k] = node_rigid_body_map[k]
           /\ a \notin DOMAIN node_rigid_body_map => r.map = node_rigid_body_map
           /\ \A b \in LinkHandles :
                 PhysicsBinder_unbind(
                     PhysicsBinder_bind(node_rigid_body_map, a, b).map, a).ret = Some(b)

\* C21: unbind(a) removes the link of a, leaving the others, and returns
\* its prior target; when a has no link it returns None and the table is
\* unchanged; bind(a, b) followed by unbind(a) returns b; once unbound, a
\* has no link until it is bound again.
C21_UnbindRemoves ==
    /\ C21_UnbindResult
    /\ node_rigid_body_map = recent
    /\ last.op = "unbind" => MapGet(node_rigid_body_map, last.h) = None

\* unbind just removed the link of a node and returned its body, while
\* another node keeps its link.
C21_Witness ==
    /\ last.op = "unbind" /\ last.ret # None
    /\ MapGet(node_rigid_body_map, last.h) = None
    /\ DOMAIN node_rigid_body_map # {}

\* A handle is alive in an arena when borrowing through it gives a payload.
NodeAlive(s, a) == Pool_borrow(s.graph, a) # None
BodyAlive(s, b) == Pool_borrow(s.physics, b) # None

\* The pairs of table m both of whose ends are alive in s.
AlivePairs(s, m) ==
    {<<a, m[a]>> : a \in {k \in DOMAIN m : NodeAlive(s, k) /\ BodyAlive(s, m[k])}}
Pairs(m) == {<<a, m[a]>> : a \in DOMAIN m}

\* C22: the prune of update_physics leaves exactly the pairs (a, b) of the
\* table it found for which a is alive in the graph and b is alive in the
\* physics world: pairs with a dead end go, pairs with both ends alive
\* stay with their target, none is added; the arenas are left as they are.
C22_PruneExact ==
    focus = "physics" =>
        /\ LET r == Scene_update_physics(scene, Physics_at_rest(scene.physics)).scene
           IN /\ Pairs(r.physics_binder) = AlivePairs(scene, scene.physics_binder)
              /\ r.graph = scene.graph /\ r.physics = scene.physics
        /\ last.op = "update_physics" =>
              Pairs(scene.physics_binder) = AlivePairs(scene, last.ret[1])

\* update_physics just ran on a table of two pairs: one had a dead end and
\* is gone, the other is kept.
C22_Witness ==
    /\ last.op = "update_physics"
    /\ Cardinality(DOMAIN last.ret[1]) = 2
    /\ Cardinality(DOMAIN scene.physics_binder) = 1
    /\ \E a \in DOMAIN scene.physics_binder :
          scene.physics_binder[a] = last.ret[1][a]

\* C23 (link pruning): whatever was freed since the pairs were bound, also
\* when a freed slot holds a new entity, update_physics prunes before its
\* sync loop looks at a pair: the loop meets alive nodes and bodies only,
\* so no update panics, and after an update every pair that had a dead end
\* is absent and every pair left has both ends alive.
C23_PruneBeforeUse ==
    focus = "physics" =>
        /\ ~panicked
        /\ \A to \in StepOutcomes :
              /\ ~Scene_update_physics(scene, to).panic
              /\ ~Scene_sync_panics(scene,
                     Scene_update_physics(scene, to).scene.physics_binder)
        /\ last.op = "update_physics" =>
              /\ \A a \in DOMAIN last.ret[1] :
                    (~NodeAlive(scene, a) \/ ~BodyAlive(scene, last.ret[1][a]))
                        => a \notin DOMAIN scene.physics_binder
              /\ \A a \in DOMAIN scene.physics_binder :
                    NodeAlive(scene, a) /\ BodyAlive(scene, scene.physics_binder[a])

\* update_physics just dropped a pair whose body had been freed and whose
\* slot holds a new body; the node of the pair is alive.
C23_Witness ==
    /\ last.op = "update_physics" /\ ~panicked
    /\ \E a \in DOMAIN last.ret[1] :
          LET b == last.ret[1][a]
          IN /\ a \notin DOMAIN scene.physics_binder
             /\ NodeAlive(scene, a)
             /\ ~Handle_is_none(b) /\ ~BodyAlive(scene, b)
             /\ scene.physics.records[b.index + 1].payload # None

\* bind takes any pair of handles, stale and none ones included.
C24_BindAcceptsAny ==
    focus = "physics" =>
        /\ ~panicked
        /\ \A a \in NodeInputs, b \in BodyInputs :
              LET r == PhysicsBinder_bind(scene.physics_binder, a, b)
              IN /\ r.map[a] = b
                 /\ DOMAIN r.map = DOMAIN scene.physics_binder \cup {a}

\* Only bind and update_physics change the table: freeing a node or a body
\* leaves its pairs in place, and they stay until the update that drops
\* every pair with a dead end, without a panic.
C24_Step ==
    focus = "physics" =>
        /\ last'.op \notin {"bind_body", "update_physics"}
              => scene'.physics_binder = scene.physics_binder
        /\ last'.op \in {"remove_node", "remove_body"}
              => /\ ~panicked'
                 /\ scene' # scene
        /\ last'.op = "update_physics"
              => /\ ~panicked'
                 /\ Pairs(scene'.physics_binder)
                       = AlivePairs(scene, scene.physics_binder)

\* C24: a link may name a handle that is or becomes invalid, without any
\* error: bind takes stale and none handles as they are; freeing an end of
\* a link neither fails nor touches the table; the stale pair stays until
\* the next update_physics, whose prune drops it silently.
C24_StaleLinksTolerated ==
    [](C24_BindAcceptsAny) /\ [][C24_Step]_vars

\* A body was just freed and the pair that targets it is still in the table.
C24_Witness ==
    /\ last.op = "remove_body" /\ ~panicked
    /\ \E a \in DOMAIN scene.physics_binder :
          /\ NodeAlive(scene, a)
          /\ ~Handle_is_none(scene.physics_binder[a])
          /\ ~BodyAlive(scene, scene.physics_binder[a])

\* The tracks of the source animations, and where the map sends them.
C25_Tracks ==
    \A i \in 1..Len(scene.animations) :
        LET old == scene.animations[i]
            new == copy.scene.animations[i]
            kept(t) == t \in DOMAIN copy.old_new_map
        IN /\ Len(new) = Len(SelectSeq(old, kept))
           /\ \A j \in 1..Len(new) :
                 /\ new[j] = copy.old_new_map[SelectSeq(old, kept)[j]]
                 /\ new[j] \in Range(copy.old_new_map)
                 /\ Pool_borrow(copy.scene.graph, new[j]) # None

\* The map takes the alive nodes the filter accepted, and only those, each
\* to a node of its own in the new graph.
C25_Map ==
    /\ DOMAIN copy.old_new_map
          = {h \in Range(OccupiedHandles(scene.graph)) : h.index \in copy.keep}
    /\ \A a \in DOMAIN copy.old_new_map, b \in DOMAIN copy.old_new_map :
          a # b => copy.old_new_map[a] # copy.old_new_map[b]

\* C25 (resolve determinism): in a clone every track whose node was kept
\* targets the new handle the old-to-new map gives for its old node, in the
\* order of the source; every track whose node was filtered out, or was not
\* alive in the source graph, is absent; no track targets a handle outside
\* the values of the map; the remap never meets a missing key (no panic).
C25_CloneRemapsTracks ==
    focus = "animation" =>
        /\ ~panicked
        /\ \A keep \in SUBSET (0..(Len(scene.graph.records) - 1)) :
              ~Scene_clone(scene, keep).panic
        /\ copy.op = "clone" =>
              /\ Len(copy.scene.animations) = Len(scene.animations)
              /\ C25_Map
              /\ C25_Tracks

\* A clone that filtered a node out: of one animation a track was dropped
\* and another now targets a handle that differs from its old one.
C25_Witness ==
    /\ copy.op = "clone" /\ ~panicked
    /\ \E i \in 1..Len(scene.animations) :
          /\ Len(scene.animations[i]) = 2
          /\ Len(copy.scene.animations[i]) = 1
          /\ \E j \in 1..2, k \in 1..2 :
                LET gone == scene.animations[i][j]
                    old == scene.animations[i][k]
                IN /\ Pool_borrow(scene.graph, gone) # None
                   /\ gone.index \notin copy.keep
                   /\ old \in DOMAIN copy.old_new_map
                   /\ copy.old_new_map[old] # old
                   /\ copy.scene.animations[i][1] = copy.old_new_map[old]

\* Arena q has the slots of arena p: as many, each occupied or free as in
\* p, the occupied ones with the payload they had.
SameSlots(p, q) ==
    /\ Len(q.records) = Len(p.records)
    /\ \A i \in 1..Len(p.records) : q.records[i].payload = p.records[i].payload
    /\ Pool_iter(q) = Pool_iter(p)

\* Every handle arena p has issued borrows from q what it borrows from p.
SameHandles(p, q) ==
    \A h \in IssuedOf(p) \cup {Handle_NONE} : Pool_borrow(q, h) = Pool_borrow(p, h)

C26_RoundTripOf(s, c, generations) ==
    /\ SameSlots(s.graph, c.graph)
    /\ SameSlots(s.physics, c.physics)
    /\ c.animations = s.animations
    /\ Pairs(c.physics_binder) = Pairs(s.physics_binder)
    /\ generations = "saved" =>
          /\ SameHandles(s.graph, c.graph)
          /\ SameHandles(s.physics, c.physics)
    /\ generations = "zero" =>
          \A i \in 1..Len(c.graph.records) :
              /\ c.graph.records[i].generation = 0
              /\ c.graph.records[i].payload # None =>
                    Pool_borrow(c.graph, Handle_new(i - 1, 0)) = s.graph.records[i].payload

GapsOf(p) == {i - 1 : i \in {k \in 1..Len(p.records) : p.records[k].payload = None}}

\* q is what loading gave for ref-counted arena p: its free list is the
\* gaps, each once; its occupied slots count one reference; a spawn leaves
\* every occupied slot as it is; one release of an occupied slot frees it.
C27_LoadedFrom(p, q) ==
    /\ Range(q.free_stack) = GapsOf(q)
    /\ GapsOf(q) = GapsOf(p)
    /\ Len(q.free_stack) = Cardinality(GapsOf(q))
    /\ \A i \in 1..Len(q.records) :
          q.records[i].payload # None =>
              /\ q.records[i].payload = p.records[i].payload
              /\ q.records[i].ref_count = 1
              /\ \A v \in Values :
                    LET r == RcPool_spawn(q, v)
                    IN /\ r.pool.records[i] = q.records[i]
                       /\ r.handle.index # i - 1
                       /\ RcPool_borrow(r.pool, r.handle) = Some(v)
              /\ LET h == RcPool_handle_from_index(q, i - 1)
                     r == RcPool_release(q, h)
                 IN /\ r.records[i].payload = None
                    /\ RcPool_borrow(r, h) = None
                    /\ Range(r.free_stack) = GapsOf(q) \cup {i - 1}

\* C27: after loading a persisted ref-counted arena the free list is exactly
\* the set of unoccupied indices and every restored slot has ref count 1,
\* whatever its count when saved; a spawn after the load overwrites no
\* restored entry and a single release of a restored entry frees it.
C27_DerivedOnLoad ==
    focus = "storage" =>
        /\ \A generations \in Generations :
              C27_LoadedFrom(surf_data_storage,
                             State_reload(surf_data_storage, generations))
        /\ copy.op = "load" => C27_LoadedFrom(surf_data_storage, copy.storage)

\* An arena with a gap and an entry counted twice was loaded: the entry
\* counts one, the gap is on the free list.
C27_Witness ==
    /\ focus = "storage" /\ copy.op = "load"
    /\ \E i, j \in 1..Len(surf_data_storage.records) :
          /\ surf_data_storage.records[i].payload = None
          /\ surf_data_storage.records[j].ref_count = 2
          /\ copy.storage.records[j].ref_count = 1
          /\ copy.storage.free_stack = <<i - 1>>

\* seq lists, in increasing slot index, the payload of each slot of S once.
ListsInOrder(seq, p, S) ==
    /\ Len(seq) = Cardinality(S)
    /\ \A i \in S : seq[Cardinality({j \in S : j <= i})] = p.records[i].payload[1]

OccupiedSlots(p) == {i \in 1..Len(p.records) : p.records[i].payload # None}
TextureSlots(p) == {i \in OccupiedSlots(p) : p.records[i].payload[1].kind = "Texture"}

\* C28: iter() / iter_mut() over an arena visit every occupied payload
\* exactly once, in increasing slot-index order, and no free slot, whatever
\* spawns and frees came before; for_each_texture_mut applies its function
\* exactly once to each live texture and to no freed or non-texture
\* resource.
C28_IterOccupiedInOrder ==
    /\ focus = "scenes" =>
          /\ ListsInOrder(SceneContainer_iter(scenes), scenes, OccupiedSlots(scenes))
          /\ last.op = "iter" => ListsInOrder(last.ret, scenes, OccupiedSlots(scenes))
    /\ focus = "cache" =>
          /\ ListsInOrder(ResourceManager_for_each_texture_mut(resources),
                          resources, TextureSlots(resources))
          /\ last.op = "for_each_texture_mut" =>
                ListsInOrder(last.ret, resources, TextureSlots(resources))

\* for_each_texture_mut ran over a cache that holds a texture and either a
\* model or a freed slot: func was applied to the texture alone.
C28_Witness ==
    /\ focus = "cache" /\ last.op = "for_each_texture_mut"
    /\ Len(resources.records) = 2
    /\ Len(last.ret) = 1
    /\ last.ret[1].kind = "Texture"
    /\ \E i \in 1..2 : resources.records[i].payload # None
                       /\ resources.records[i].payload[1].kind = "Model"

\* The handles of S and of the alive nodes of g whose parent is in S, and so
\* on down: S with all that descends from it.
RECURSIVE WithDescendants(_, _)
WithDescendants(g, S) ==
    LET T == S \cup {n \in IssuedOf(g) :
                        /\ Pool_borrow(g, n) # None
                        /\ Pool_borrow(g, n)[1].parent \in S}
    IN IF T = S THEN S ELSE WithDescendants(g, T)

Targets(tracks, S) == \E i \in 1..Len(tracks) : tracks[i] \in S

\* t is what remove_node(h) makes of scene s.
C29_Removed(s, h, t) ==
    LET gone == WithDescendants(s.graph, {h})
        untouched(tracks) == ~Targets(tracks, gone)
    IN /\ \A n \in gone : ~NodeAlive(t, n)
       /\ \A n \in IssuedOf(s.graph) \ gone :
             Pool_borrow(t.graph, n) = Pool_borrow(s.graph, n)
       /\ t.animations = SelectSeq(s.animations, untouched)
       /\ \A k \in 1..Len(t.animations) : ~Targets(t.animations[k], gone)

\* C29: remove_node(h) with a valid handle removes the node and its
\* descendants, removes every animation with at least one track targeting h
\* or a descendant of h, keeps the others in their order, and leaves no
\* animation track that references a node it removed.
C29_Step ==
    (focus = "animation" /\ last'.op = "remove_node" /\ NodeAlive(scene, last'.h))
        => C29_Removed(scene, last'.h, scene')
C29_RemoveNodeAnimations == [][C29_Step]_vars

\* remove_node(h) ran on a scene where h had a child, one animation had a
\* track on the child and another had none on either: the first animation
\* went with both nodes, the second stayed.
C29_Witness ==
    /\ focus = "animation" /\ last.op = "remove_node"
    /\ LET before == last.ret[1]
       IN /\ \E d \in IssuedOf(before.graph) \ {last.h} :
                /\ NodeAlive(before, d)
                /\ Pool_borrow(before.graph, d)[1].parent = last.h
                /\ ~NodeAlive(scene, d)
                /\ \E k \in 1..Len(before.animations) :
                      /\ Targets(before.animations[k], {d})
                      /\ ~Targets(before.animations[k], {last.h})
          /\ Len(before.animations) = 2
          /\ Len(scene.animations) = 1
          /\ ~NodeAlive(scene, last.h)

NodePosition(s, n) == Pool_borrow(s.graph, n)[1].position
BodyPosition(s, b) == Pool_borrow(s.physics, b)[1].position

\* t is what update_physics makes of scene s: the bodies are where the step
\* put them, the table is pruned, each node of a remaining pair is where
\* its body is, every other node is as it was.
C31_Updated(s, t) ==
    /\ Pairs(t.physics_binder) = AlivePairs(s, s.physics_binder)
    /\ \A n \in DOMAIN t.physics_binder :
          /\ NodeAlive(t, n) /\ BodyAlive(t, t.physics_binder[n])
          /\ NodePosition(t, n) = BodyPosition(t, t.physics_binder[n])
          /\ Pool_borrow(t.graph, n)[1].parent = Pool_borrow(s.graph, n)[1].parent
    /\ \A n \in IssuedOf(s.graph) \ DOMAIN t.physics_binder :
          Pool_borrow(t.graph, n) = Pool_borrow(s.graph, n)
    /\ Len(t.graph.records) = Len(s.graph.records)
    /\ \A b \in IssuedOf(s.physics) : BodyAlive(t, b) <=> BodyAlive(s, b)

C31_Step ==
    (focus = "sync" /\ last'.op = "update_physics") =>
        /\ ~panicked'
        /\ C31_Updated(scene, scene')

\* C31: update_physics steps the physics, then prunes the link table, then
\* syncs: on return every remaining link (n, b) has node n at the position
\* body b has after the step, and a node without a remaining link is where
\* it was.
C31_StepPruneSync == [][C31_Step]_vars

\* update_physics just ran: a linked node is where its moved body is, a
\* node without a link has not moved.
C31_Witness ==
    /\ focus = "sync" /\ last.op = "update_physics" /\ ~panicked
    /\ \E n \in DOMAIN scene.physics_binder :
          /\ NodeAlive(scene, n)
          /\ NodePosition(scene, n) = 1
          /\ BodyPosition(scene, scene.physics_binder[n]) = 1
          /\ \E u \in IssuedOf(scene.graph) \ DOMAIN scene.physics_binder :
                NodeAlive(scene, u) /\ NodePosition(scene, u) = 0

\* c is the clone of scene s made with old-to-new map m: its table holds the
\* pair (m[n], b) for each pair (n, b) of s whose node is a key of m, one
\* for each, and nothing else; the bodies are those of s.
C32_Rebound(s, c, m) ==
    LET retained == DOMAIN s.physics_binder \cap DOMAIN m
    IN /\ Pairs(c.physics_binder) = {<<m[n], s.physics_binder[n]>> : n \in retained}
       /\ Cardinality(DOMAIN c.physics_binder) = Cardinality(retained)
       /\ \A n \in retained : NodeAlive(c, m[n])
       /\ \A k \in DOMAIN c.physics_binder : NodeAlive(c, k)
       /\ c.physics = s.physics
       /\ \A b \in BodyInputs : BodyAlive(c, b) <=> BodyAlive(s, b)

\* C32: the physics binder of a clone holds exactly one pair
\* (old_new_map[n], b) for each source pair (n, b) whose node the filter
\* retained, and none for a node that was filtered out or is not in the
\* map; the body handles are copied unchanged and are valid in the cloned
\* physics world exactly when they are valid in the source.
C32_CloneRebinds ==
    focus = "rebind" =>
        /\ \A keep \in SUBSET (0..(Len(scene.graph.records) - 1)) :
              \A r \in {Scene_clone(scene, keep)} :
                  C32_Rebound(scene, r.scene, r.old_new_map)
        /\ copy.op = "clone" =>
              /\ C32_Rebound(scene, copy.scene, copy.old_new_map)
              /\ DOMAIN copy.old_new_map
                    = {h \in Range(OccupiedHandles(scene.graph)) : h.index \in copy.keep}

\* A clone of a scene with two linked nodes, one of them filtered out: the
\* clone has the one link of the node that was kept, keyed on its new
\* handle, with the body it had.
C32_Witness ==
    /\ focus = "rebind" /\ copy.op = "clone"
    /\ \E n \in DOMAIN scene.physics_binder, f \in DOMAIN scene.physics_binder :
          /\ NodeAlive(scene, n) /\ NodeAlive(scene, f)
          /\ n.index \in copy.keep /\ f.index \notin copy.keep
          /\ copy.old_new_map[n] # n
          /\ BodyAlive(scene, scene.physics_binder[n])
          /\ DOMAIN copy.scene.physics_binder = {copy.old_new_map[n]}
          /\ copy.scene.physics_binder[copy.old_new_map[n]] = scene.physics_binder[n]

\* A remove_node step leaves the table and the bodies as they are, the
\* links of the removed nodes included.  An update_physics step meets no
\* dead handle (no panic) and drops every pair whose node is dead, also
\* when the slot of that node holds a new node, which is left as it is
\* unless it has a link of its own.
C33_Step ==
    focus = "sync" =>
        /\ last'.op = "remove_node" =>
              /\ scene'.physics_binder = scene.physics_binder
              /\ scene'.physics = scene.physics
              /\ ~NodeAlive(scene', last'.h)
              /\ ~panicked'
        /\ last'.op = "update_physics" =>
              /\ ~panicked'
              /\ \A n \in DOMAIN scene.physics_binder :
                    ~NodeAlive(scene, n) =>
                       /\ n \notin DOMAIN scene'.physics_binder
                       /\ \A u \in IssuedOf(scene.graph) \ DOMAIN scene'.physics_binder :
                             u.index = n.index =>
                                Pool_borrow(scene'.graph, u) = Pool_borrow(scene.graph, u)
        /\ last'.op \in {"add_node", "add_body", "remove_body"} =>
              scene'.physics_binder = scene.physics_binder

\* C33: remove_node(h) does not touch the physics binder: a link keyed on h
\* or on a removed descendant stays in the table after the removal, and the
\* prune of the next update_physics removes it before it is dereferenced,
\* even if a new node was spawned into the slot of the removed node in
\* between.
C33_RemoveNodeKeepsLinks == [][C33_Step]_vars

\* update_physics just dropped the pair of a removed node whose slot holds
\* a new node; the body of the pair is alive and nothing panicked.
C33_Witness ==
    /\ focus = "sync" /\ last.op = "update_physics" /\ ~panicked
    /\ \E n \in DOMAIN last.ret[1] :
          /\ n \notin DOMAIN scene.physics_binder
          /\ ~NodeAlive(scene, n)
          /\ n.index < Len(scene.graph.records)
          /\ scene.graph.records[n.index + 1].payload # None
          /\ scene.graph.records[n.index + 1].generation > n.generation
          /\ BodyAlive(scene, last.ret[1][n])

(* ------------------------------- C34 ----------------------------------- *)
\* C34: after any request_resource, requests made by the model loader while
\* the outer request is in progress included (one for the path of the outer
\* request too), the arena has at most one entry per path.
C34_NestedOnePerPath ==
    focus = "nested" =>
        \A path \in Paths : Cardinality(SlotsWithPath(path)) <= 1

(* ------------------------------- C36 ----------------------------------- *)
\* Tables m and n agree on every key but a.
C36_Others(m, n, a) ==
    \A k \in (DOMAIN m \cup DOMAIN n) \ {a} :
        k \in DOMAIN m /\ k \in DOMAIN n /\ n[k] = m[k]

\* What bind and unbind make of the table at hand, for every key and body.
C36_OneKey ==
    focus = "rebind" =>
        /\ \A a \in NodeInputs, b \in BodyInputs :
              \A r \in {PhysicsBinder_bind(scene.physics_binder, a, b)} :
                  /\ a \in DOMAIN r.map /\ r.map[a] = b
                  /\ C36_Others(scene.physics_binder, r.map, a)
        /\ \A a \in NodeInputs :
              \A r \in {PhysicsBinder_unbind(scene.physics_binder, a)} :
                  /\ a \notin DOMAIN r.map
                  /\ C36_Others(scene.physics_binder, r.map, a)

\* What a bind or unbind step does to the scene.
C36_Step ==
    focus = "rebind" =>
        /\ last'.op = "bind_body" =>
              /\ \E a \in DOMAIN scene'.physics_binder :
                    C36_Others(scene.physics_binder, scene'.physics_binder, a)
              /\ scene'.graph = scene.graph /\ scene'.physics = scene.physics
        /\ last'.op = "unbind_body" =>
              /\ \E a \in NodeInputs :
                    /\ a \notin DOMAIN scene'.physics_binder
                    /\ C36_Others(scene.physics_binder, scene'.physics_binder, a)
              /\ scene'.graph = scene.graph /\ scene'.physics = scene.physics

\* C36: bind(a, b) and unbind(a) change the entry of key a alone: every
\* other key keeps its target, also a key that has body b already, and the
\* graph and the physics world are left as they are.
C36_BindUnbindFrame == []C36_OneKey /\ [][C36_Step]_vars

\* A bind has just linked a second live node to the body of another live
\* node, and both links are in the table.
C36_Witness ==
    /\ focus = "rebind" /\ last.op = "bind_body"
    /\ \E j \in DOMAIN scene.physics_binder, k \in DOMAIN scene.physics_binder :
          /\ j # k /\ scene.physics_binder[j] = scene.physics_binder[k]
          /\ NodeAlive(scene, j) /\ NodeAlive(scene, k)
          /\ BodyAlive(scene, scene.physics_binder[j])

(* ------------------------------- C37 ----------------------------------- *)
\* The weights of the pushes that returned true, in push order.
C37_Accepted ==
    LET taken(e) == e.ret
        a == SelectSeq(pushed, taken)
    IN [i \in 1..Len(a) |-> a[i].weight]

\* C37: a VertexWeightSet holds 4 weights at most.  After any pushes len()
\* is the number of pushes that returned true and is at most 4; a push on a
\* set with len() < 4 returns true and appends, a push on a set with
\* len() = 4 returns false and leaves the set as it is; iter() yields the
\* first len() weights pushed, in push order.
C37_WeightSetCapacity ==
    focus = "weights" =>
        /\ VertexWeightSet_len(weight_set) = Len(C37_Accepted)
        /\ VertexWeightSet_len(weight_set) <= 4
        /\ VertexWeightSet_is_empty(weight_set) <=> C37_Accepted = << >>
        /\ \A i \in 1..Len(pushed) : pushed[i].ret <=> i <= 4
        /\ VertexWeightSet_iter(weight_set) = C37_Accepted
        /\ \A weight \in Weights :
              \A r \in {VertexWeightSet_push(weight_set, weight)} :
                  IF VertexWeightSet_len(weight_set) < 4
                  THEN /\ r.ret
                       /\ VertexWeightSet_len(r.set) = VertexWeightSet_len(weight_set) + 1
                       /\ VertexWeightSet_iter(r.set)
                             = Append(VertexWeightSet_iter(weight_set), weight)
                  ELSE ~r.ret /\ r.set = weight_set
        /\ last.op = "push" => last.ret = Some(pushed[Len(pushed)].ret)
        /\ last.op = "iter" => last.ret = Some(C37_Accepted)

\* A fifth push, of a weight that differs from the fourth, was refused, and
\* iter then yielded the first four weights.
C37_Witness ==
    /\ focus = "weights" /\ last.op = "iter"
    /\ Len(pushed) = 5 /\ ~pushed[5].ret
    /\ pushed[5].weight # pushed[4].weight
    /\ pushed[1].weight # pushed[2].weight
    /\ VertexWeightSet_len(weight_set) = 4
    /\ last.ret = Some([i \in 1..4 |-> pushed[i].weight])

====
